---- MODULE Spec2Model ----
(***************************************************************************)
(* Model of the eyepiece image-formation pipeline (rconan/eyepiece):       *)
(* SeeingBuilder / FieldBuilder construction, Field::intensity in its      *)
(* three source variants, the ZpDft engine and the AO transfer function.   *)
(*                                                                         *)
(* Numbers.  The program computes in f64.  The model computes exactly:     *)
(*   - a rational is a pair <<n, d>> in lowest terms, d > 0;               *)
(*   - a real is p + q*sqrt(2) with p, q rational (record [p, q]), the     *)
(*     field that holds every value the DFT of sizes 1, 2, 4 produces      *)
(*     from pupil phases that are multiples of 1/8 turn;                   *)
(*   - a complex is [re, im] of such reals;                                *)
(*   - an f64 cell that may be NaN is [nan |-> BOOLEAN, v |-> real].       *)
(* Lengths are in millimetres, wavelengths in nanometres, hence angles     *)
(* (wavelength / length) in micro-radians.                                 *)
(***************************************************************************)
EXTENDS Integers, Sequences, FiniteSets, TLC

----------------------------------------------------------------------------
(* Exact rationals *)

Abs(x) == IF x < 0 THEN -x ELSE x

RECURSIVE GCD(_, _)
GCD(a, b) == IF b = 0 THEN a ELSE GCD(b, a % b)

Rat(n, d) ==
    LET s == IF d < 0 THEN -1 ELSE 1
        g == GCD(Abs(n), Abs(d))
    IN  <<(s * n) \div g, (s * d) \div g>>

RInt(n) == <<n, 1>>
R0 == <<0, 1>>
R1 == <<1, 1>>
\* sums over the least common denominator, to keep the products small
RAdd(x, y) ==
    IF x[1] = 0 THEN y
    ELSE IF y[1] = 0 THEN x
    ELSE LET g == GCD(x[2], y[2])
         IN  Rat(x[1] * (y[2] \div g) + y[1] * (x[2] \div g), x[2] * (y[2] \div g))
RNeg(x) == <<-x[1], x[2]>>
RSub(x, y) == RAdd(x, RNeg(y))
RMul(x, y) ==
    LET g1 == GCD(Abs(x[1]), y[2])
        g2 == GCD(Abs(y[1]), x[2])
    IN  IF x[1] = 0 \/ y[1] = 0 THEN <<0, 1>>
        ELSE <<(x[1] \div g1) * (y[1] \div g2), (x[2] \div g2) * (y[2] \div g1)>>
RDiv(x, y) == Rat(x[1] * y[2], x[2] * y[1])
RLt(x, y) == RSub(x, y)[1] < 0
RLe(x, y) == RSub(x, y)[1] <= 0
RAbs(x) == <<Abs(x[1]), x[2]>>
RIsInt(x) == x[2] = 1
\* f64::floor, f64::ceil and f64::round (half away from zero), as integers
RFloor(x) == x[1] \div x[2]
RCeil(x) == -((-x[1]) \div x[2])
RRound(x) ==
    IF x[1] >= 0 THEN (2 * x[1] + x[2]) \div (2 * x[2])
    ELSE -((2 * (-x[1]) + x[2]) \div (2 * x[2]))

----------------------------------------------------------------------------
(* Reals p + q*sqrt(2) and complex numbers over them *)

Sd(p, q) == [p |-> p, q |-> q]
SRat(r) == Sd(r, R0)
S0 == SRat(R0)
S1 == SRat(R1)
SAdd(x, y) == Sd(RAdd(x.p, y.p), RAdd(x.q, y.q))
SNeg(x) == Sd(RNeg(x.p), RNeg(x.q))
SSub(x, y) == SAdd(x, SNeg(y))
SMul(x, y) ==
    Sd(RAdd(RMul(x.p, y.p), RMul(RInt(2), RMul(x.q, y.q))),
       RAdd(RMul(x.p, y.q), RMul(x.q, y.p)))
SScale(r, x) == Sd(RMul(r, x.p), RMul(r, x.q))
\* sign of p + q*sqrt(2): compare p^2 with 2 q^2 when the signs differ
SSign(x) ==
    LET p == x.p[1]
        q == x.q[1]
        p2 == RMul(x.p, x.p)
        q2 == RMul(RInt(2), RMul(x.q, x.q))
    IN  IF p = 0 /\ q = 0 THEN 0
        ELSE IF p >= 0 /\ q >= 0 THEN 1
        ELSE IF p <= 0 /\ q <= 0 THEN -1
        ELSE IF p > 0 THEN (IF RLt(q2, p2) THEN 1 ELSE -1)
        ELSE (IF RLt(p2, q2) THEN 1 ELSE -1)
SLt(x, y) == SSign(SSub(y, x)) = 1
SLe(x, y) == SSign(SSub(y, x)) >= 0
SAbs(x) == IF SSign(x) < 0 THEN SNeg(x) ELSE x

\* A complex f64 pair; nan marks a value with a non-finite component
Cx(re, im) == [nan |-> FALSE, re |-> re, im |-> im]
C0 == Cx(S0, S0)
C1 == Cx(S1, S0)
CNaN == [nan |-> TRUE, re |-> S0, im |-> S0]
CAdd(x, y) ==
    IF x.nan \/ y.nan THEN CNaN
    ELSE Cx(SAdd(x.re, y.re), SAdd(x.im, y.im))
CMul(x, y) ==
    IF x.nan \/ y.nan THEN CNaN
    ELSE Cx(SSub(SMul(x.re, y.re), SMul(x.im, y.im)),
            SAdd(SMul(x.re, y.im), SMul(x.im, y.re)))
CScale(r, x) == IF x.nan THEN CNaN ELSE Cx(SScale(r, x.re), SScale(r, x.im))

\* A real f64 cell of an intensity array: NaN or a finite value
Fin(v) == [nan |-> FALSE, v |-> v]
NaN == [nan |-> TRUE, v |-> S0]
F0 == Fin(S0)
FAdd(x, y) == IF x.nan \/ y.nan THEN NaN ELSE Fin(SAdd(x.v, y.v))
FMul(x, y) == IF x.nan \/ y.nan THEN NaN ELSE Fin(SMul(x.v, y.v))
FIsZero(x) == ~x.nan /\ SSign(x.v) = 0
\* Complex::norm_sqr
CNormSqr(x) ==
    IF x.nan THEN NaN ELSE Fin(SAdd(SMul(x.re, x.re), SMul(x.im, x.im)))
\* Complex::norm (hypot), exact when the value is real or imaginary, which
\* is what a Hermitian spectrum transforms to
CNorm(x) ==
    IF x.nan THEN NaN
    ELSE CASE SSign(x.im) = 0 -> Fin(SAbs(x.re))
           [] SSign(x.re) = 0 -> Fin(SAbs(x.im))
\* an f64 as a complex with zero imaginary part
CReal(f) == IF f.nan THEN CNaN ELSE Cx(f.v, S0)

HalfSqrt2 == Sd(R0, <<1, 2>>)
\* exp(2 pi i k / 8)
Zeta8(k) ==
    CASE k % 8 = 0 -> Cx(S1, S0)
      [] k % 8 = 1 -> Cx(HalfSqrt2, HalfSqrt2)
      [] k % 8 = 2 -> Cx(S0, S1)
      [] k % 8 = 3 -> Cx(SNeg(HalfSqrt2), HalfSqrt2)
      [] k % 8 = 4 -> Cx(SNeg(S1), S0)
      [] k % 8 = 5 -> Cx(SNeg(HalfSqrt2), SNeg(HalfSqrt2))
      [] k % 8 = 6 -> Cx(S0, SNeg(S1))
      [] k % 8 = 7 -> Cx(HalfSqrt2, SNeg(HalfSqrt2))
\* Complex::from_polar(1, 2 pi t) for a rational number of turns t that is a
\* multiple of 1/8 (the only phases the model's inputs produce)
FromTurns(t) ==
    LET e == RMul(RInt(8), t)
    IN  CASE RIsInt(e) -> Zeta8(e[1])

----------------------------------------------------------------------------
(* Arrays are functions on 0 .. n-1, flat and row-major as in the code *)

\* a value computed once and then handed to F, as a Rust binding is: every
\* use of it in F reads the value and none recomputes it
With(F(_), x) == CHOOSE r \in {F(b) : b \in {x}} : TRUE
With2(F(_, _), x, y) == CHOOSE r \in {F(a, b) : a \in {x}, b \in {y}} : TRUE

ALen(a) == Cardinality(DOMAIN a)
Zeros(n) == [k \in 0 .. n - 1 |-> C0]
FZeros(n) == [k \in 0 .. n - 1 |-> F0]

RECURSIVE CSumTo(_, _)
CSumTo(F(_), n) == IF n = 0 THEN C0 ELSE CAdd(CSumTo(F, n - 1), F(n - 1))
\* the sum of F(lo) .. F(hi); exact sums do not depend on the order
RECURSIVE FSumRange(_, _, _)
FSumRange(F(_), lo, hi) ==
    IF hi < lo THEN F0
    ELSE IF lo = hi THEN F(lo)
    ELSE FAdd(FSumRange(F, lo, (lo + hi) \div 2),
              FSumRange(F, (lo + hi) \div 2 + 1, hi))
FSumTo(F(_), n) == FSumRange(F, 0, n - 1)
\* iter().sum() of an intensity array
FSum(a) == With(LAMBDA v: FSumTo(LAMBDA k: v[k], ALen(v)), a)

\* (n2 as f64).sqrt() as i64
RECURSIVE ISqrtFrom(_, _)
ISqrtFrom(n2, r) == IF (r + 1) * (r + 1) > n2 THEN r ELSE ISqrtFrom(n2, r + 1)
ISqrt(n2) == ISqrtFrom(n2, 0)

----------------------------------------------------------------------------
(* ZpDft: the zero-padded two-dimensional DFT engine *)

\* ZpDft::forward / ZpDft::inverse
ZpForward(len) == [len |-> len, inverse |-> FALSE, buf |-> Zeros(len * len)]
ZpInverse(len) == [len |-> len, inverse |-> TRUE, buf |-> Zeros(len * len)]
\* ZpDft::reset
ZpReset(e) == [e EXCEPT !.buf = Zeros(e.len * e.len)]

\* a placement that keeps the input in the corner of the buffer
PadCellCorner(i, j, n, len) == i * len + j
\* the cell zero_padding writes input sample (i, j) of an n x n array to
PadCell(i, j, n, len) ==
    ((i - n \div 2) % len) * len + ((j - n \div 2) % len)
\* the last input sample, in loop order, that zero_padding writes to cell kk
\* (-1 when none does)
RECURSIVE LastWriter(_, _, _, _)
LastWriter(kk, k, n, len) ==
    IF k < 0 THEN -1
    ELSE IF PadCell(k \div n, k % n, n, len) = kk THEN k
    ELSE LastWriter(kk, k - 1, n, len)
\* ZpDft::zero_padding, for an input the assertion accepts
ZpZeroPadding(zp, buffer) ==
    With2(LAMBDA e, input:
        With(LAMBDA n:
            IF n = e.len THEN [e EXCEPT !.buf = input]
            ELSE [e EXCEPT !.buf =
                    [kk \in DOMAIN e.buf |->
                        With(LAMBDA k: IF k < 0 THEN e.buf[kk] ELSE input[k],
                             LastWriter(kk, n * n - 1, n, e.len))]],
            ISqrt(ALen(input))),
        zp, buffer)
\* the assertion of zero_padding
ZpIsSquare(input) == ISqrt(ALen(input)) * ISqrt(ALen(input)) = ALen(input)

\* the product of x with i^q
CRot(x, q) ==
    IF x.nan THEN CNaN
    ELSE CASE q % 4 = 0 -> x
           [] q % 4 = 1 -> Cx(SNeg(x.im), x.re)
           [] q % 4 = 2 -> Cx(SNeg(x.re), SNeg(x.im))
           [] q % 4 = 3 -> Cx(x.im, SNeg(x.re))
\* the twiddle factor exp(-+ 2 pi i m / len) of the planned 1-D transform
Twiddle(len, inverse, m) ==
    FromTurns(Rat(IF inverse THEN m ELSE -m, len))
\* the product of x with that factor: a quarter-turn rotation where the
\* factor is a power of i
MulTwiddle(x, len, inverse, m) ==
    IF (4 * m) % len = 0
    THEN CRot(x, IF inverse THEN (4 * m) \div len ELSE -((4 * m) \div len))
    ELSE CMul(x, Twiddle(len, inverse, m))
\* Fft::process_with_scratch on a len*len buffer: one length-len transform
\* per chunk of len samples
FftRows(buffer, len, inverse) ==
    With(LAMBDA buf:
        [k \in DOMAIN buf |->
            CSumTo(LAMBDA j: MulTwiddle(buf[(k \div len) * len + j], len, inverse,
                                        j * (k % len)), len)],
        buffer)
\* the strided re-indexing between the two passes: for each k below len the
\* samples k, k + len, k + 2 len, ... in turn
Transpose(buffer, len) ==
    With2(LAMBDA buf, r: [k \in DOMAIN buf |-> buf[(k % r) * len + (k \div r)]],
          buffer, ALen(buffer) \div len)
\* buffer.iter_mut().for_each(|b| *b /= len)
DivideBy(buffer, len) ==
    With(LAMBDA buf: [k \in DOMAIN buf |-> CScale(<<1, len>>, buf[k])], buffer)
\* ZpDft::process
ZpProcess(zp) ==
    With(LAMBDA e:
        [e EXCEPT !.buf =
            DivideBy(FftRows(Transpose(FftRows(e.buf, e.len, e.inverse), e.len),
                             e.len, e.inverse), e.len)],
        zp)
\* ZpDft::shift
ZpShift(zp) ==
    With(LAMBDA e:
        [e EXCEPT !.buf =
            [kk \in DOMAIN e.buf |->
                IF kk >= e.len * e.len THEN C0
                ELSE e.buf[((kk \div e.len - e.len \div 2) % e.len) * e.len
                           + (((kk % e.len) - e.len \div 2) % e.len)]]],
        zp)
\* ZpDft::filter
ZpFilter(zp, otf) ==
    With2(LAMBDA e, kernel:
        [e EXCEPT !.buf =
            [k \in DOMAIN e.buf |->
                IF k \in DOMAIN kernel THEN CMul(e.buf[k], kernel[k]) ELSE e.buf[k]]],
        zp, otf)
\* ZpDft::crop
ZpCrop(zp, new_len) ==
    With2(LAMBDA e, ij0:
        [e EXCEPT !.buf =
            [k \in 0 .. new_len * new_len - 1 |->
                e.buf[(k \div new_len + ij0) * e.len + (k % new_len) + ij0]]],
        zp, zp.len \div 2 - new_len \div 2)
\* ZpDft::resize
ZpResize(zp, new_len) ==
    With(LAMBDA e:
        IF e.len > new_len THEN ZpCrop(e, new_len)
        ELSE With(LAMBDA ij0:
                [e EXCEPT !.buf =
                    [kk \in 0 .. new_len * new_len - 1 |->
                        With2(LAMBDA i, j:
                                IF i >= 0 /\ i < e.len /\ j >= 0 /\ j < e.len
                                THEN e.buf[i * e.len + j] ELSE C0,
                              kk \div new_len - ij0, (kk % new_len) - ij0)]],
                (new_len - e.len) \div 2),
        zp)
\* where the methods panic on an engine whose buffer does not hold
\* len * len samples: an index past the end of the buffer, a subtraction
\* below zero, or a buffer the planned transform cannot split into chunks
ZpPaddingPanics(zp, buffer) ==
    With2(LAMBDA e, n:
            /\ n # e.len
            /\ \E i, j \in 0 .. n - 1 : PadCell(i, j, n, e.len) >= ALen(e.buf),
          zp, ISqrt(ALen(buffer)))
ZpShiftPanics(zp) == ALen(zp.buf) < zp.len * zp.len
ZpProcessPanics(zp) == ALen(zp.buf) % zp.len # 0
ZpCropPanics(zp, new_len) ==
    \/ new_len \div 2 > zp.len \div 2
    \/ /\ new_len > 0
       /\ (new_len - 1 + zp.len \div 2 - new_len \div 2) * (zp.len + 1) >= ALen(zp.buf)
ZpResizePanics(zp, new_len) ==
    IF zp.len > new_len THEN ZpCropPanics(zp, new_len)
    ELSE ALen(zp.buf) < zp.len * zp.len
\* ZpDft::norm_sqr and ZpDft::norm
ZpNormSqr(zp) == With(LAMBDA e: [k \in DOMAIN e.buf |-> CNormSqr(e.buf[k])], zp)
ZpNorm(zp) == With(LAMBDA e: [k \in DOMAIN e.buf |-> CNorm(e.buf[k])], zp)

----------------------------------------------------------------------------
(* Observer: the telescope and its pupil *)

\* Telescope::inside_pupil, on squared radii; the inner radius is the
\* obscuration value itself
InsidePupil(obs, x, y) ==
    LET r2 == RAdd(RMul(x, x), RMul(y, y))
        r_outer == RMul(obs.diameter, <<1, 2>>)
        r_inner == obs.obscuration
    IN  RLe(RMul(r_inner, r_inner), r2) /\ RLe(r2, RMul(r_outer, r_outer))
\* the side of the pupil grid
PupilSide(obs) == RRound(RDiv(obs.diameter, obs.resolution)) + 1
\* Observer::pupil with Some(shift)
PupilCoord(i, l, diameter) == RMul(RSub(<<i, l>>, <<1, 2>>), diameter)
Pupil(observer, shift_x, shift_y) ==
    With2(LAMBDA obs, shift:
        With(LAMBDA n_px:
            [k \in 0 .. n_px * n_px - 1 |->
                With2(LAMBDA x, y:
                        IF InsidePupil(obs, x, y)
                        THEN With(LAMBDA t: FromTurns(t),
                                  RNeg(RAdd(RMul(x, shift[1]), RMul(y, shift[2]))))
                        ELSE C0,
                      PupilCoord(k % n_px, n_px - 1, obs.diameter),
                      PupilCoord(k \div n_px, n_px - 1, obs.diameter))],
            PupilSide(obs)),
        observer, <<shift_x, shift_y>>)

----------------------------------------------------------------------------
(* f64 scalars given by the caller: finite, NaN or an infinity.
   Lengths are in mm, wavelengths in nm, sky angles in micro-radians, so
   that wavelength / length is an angle and angle / wavelength a spatial
   frequency without any conversion factor. *)

FS(v) == [cls |-> "fin", v |-> v]
SNaN == [cls |-> "nan", v |-> R0]
SPInf == [cls |-> "pinf", v |-> R0]
SNInf == [cls |-> "ninf", v |-> R0]
IsFinite(f) == f.cls = "fin"

\* an absent Option<f64>
NoneF == [some |-> FALSE, v |-> R0]
SomeF(v) == [some |-> TRUE, v |-> v]

\* 10^k for an integer k
RECURSIVE Pow10(_)
Pow10(k) ==
    IF k = 0 THEN R1
    ELSE IF k > 0 THEN RMul(<<10, 1>>, Pow10(k - 1))
    ELSE RMul(<<1, 10>>, Pow10(k + 1))
\* 10f64.powf(-0.4 * magnitude), exact for magnitudes that are multiples of 2.5
Pow10Magnitude(m) ==
    CASE m.cls = "nan" -> SNaN
      [] m.cls = "pinf" -> FS(R0)
      [] m.cls = "ninf" -> SPInf
      [] m.cls = "fin" /\ RIsInt(RMul(m.v, <<2, 5>>)) ->
            FS(Pow10(-RFloor(RMul(m.v, <<2, 5>>))))
\* the product of an f64 with a finite positive factor
ScaleF(f, r) == IF f.cls = "fin" THEN FS(RMul(f.v, r)) ELSE f
\* f64::sqrt, exact on squares of rationals
RSqrt(r) ==
    CASE ISqrt(r[1]) * ISqrt(r[1]) = r[1] /\ ISqrt(r[2]) * ISqrt(r[2]) = r[2] ->
            <<ISqrt(r[1]), ISqrt(r[2])>>
SqrtF(f) ==
    CASE f.cls = "fin" /\ ~RLt(f.v, R0) -> FS(RSqrt(f.v))
      [] f.cls = "fin" /\ RLt(f.v, R0) -> SNaN
      [] f.cls = "nan" -> SNaN
      [] f.cls = "pinf" -> SPInf
      [] f.cls = "ninf" -> SNaN

----------------------------------------------------------------------------
(* Photometry *)

Bands == {"V", "R", "I", "J", "H", "K"}
\* wavelength, in nm, of a known band
Wavelength(band) ==
    CASE band = "V" -> <<550, 1>>
      [] band = "R" -> <<640, 1>>
      [] band = "I" -> <<790, 1>>
      [] band = "J" -> <<1215, 1>>
      [] band = "H" -> <<1654, 1>>
      [] band = "K" -> <<2179, 1>>
\* zero point, in photon/s/mm^2, of a known band
Zeropoint(band) ==
    CASE band = "V" -> <<8970, 1>>
      [] band = "R" -> <<10870, 1>>
      [] band = "I" -> <<7340, 1>>
      [] band = "J" -> <<5160, 1>>
      [] band = "H" -> <<2990, 1>>
      [] band = "K" -> <<1900, 1>>
\* impl From<&str> for Photometry: known is FALSE where the code panics
PhotometryFrom(band) ==
    IF band \in Bands
    THEN [known |-> TRUE, band |-> band, wavelength |-> Wavelength(band),
          zeropoint |-> Zeropoint(band)]
    ELSE [known |-> FALSE, band |-> band, wavelength |-> R0, zeropoint |-> R0]
\* Photometry::n_photon
NPhoton(phot, magnitude) == ScaleF(Pow10Magnitude(magnitude), phot.zeropoint)

----------------------------------------------------------------------------
(* Pixel scale and field of view *)

Nyquist(n) == [kind |-> "Nyquist", n |-> n, band |-> "", val |-> R0]
NyquistAt(n, band) == [kind |-> "NyquistAt", n |-> n, band |-> band, val |-> R0]
NyquistFraction(n) == [kind |-> "NyquistFraction", n |-> n, band |-> "", val |-> R0]
NyquistFractionAt(n, band) ==
    [kind |-> "NyquistFractionAt", n |-> n, band |-> band, val |-> R0]
PixelSkyAngle(val) == [kind |-> "SkyAngle", n |-> 0, band |-> "", val |-> val]

\* the band conversion PixelScale::get performs, if any, fails
PixelScalePanics(ps) ==
    ps.kind \in {"NyquistAt", "NyquistFractionAt"} /\ ~PhotometryFrom(ps.band).known
\* PixelScale::get
PixelScaleGet(ps, obs, phot) ==
    LET lambda == IF ps.kind \in {"NyquistAt", "NyquistFractionAt"}
                  THEN PhotometryFrom(ps.band).wavelength
                  ELSE phot.wavelength
        nyquist == RDiv(RMul(<<1, 2>>, lambda), obs.diameter)
    IN  CASE ps.kind \in {"NyquistFraction", "NyquistFractionAt"} ->
                RDiv(nyquist, RInt(ps.n))
          [] ps.kind \in {"Nyquist", "NyquistAt"} -> RMul(nyquist, RInt(ps.n))
          [] ps.kind = "SkyAngle" -> ps.val
\* PixelScale::to_nyquist_clamped_ratio
ToNyquistClampedRatio(ps, obs, phot) ==
    CASE ps.kind \in {"NyquistFraction", "NyquistFractionAt"} -> 1
      [] ps.kind \in {"Nyquist", "NyquistAt"} -> ps.n
      [] ps.kind = "SkyAngle" ->
            RCeil(RDiv(RMul(RMul(<<2, 1>>, ps.val), obs.diameter), phot.wavelength))

FovPixelScale(n) == [kind |-> "PixelScale", n |-> n, band |-> "", val |-> R0]
FovPixelScaleAt(n, band) == [kind |-> "PixelScaleAt", n |-> n, band |-> band, val |-> R0]
FovSkyAngle(val) == [kind |-> "SkyAngle", n |-> 0, band |-> "", val |-> val]

\* Field::resolution
Resolution(f) == PixelScaleGet(f.pixel_scale, f.observer, f.photometry)
ResolutionPanics(f) == PixelScalePanics(f.pixel_scale)
\* FieldOfView::get
FieldOfViewGet(f) ==
    LET fov == f.field_of_view
    IN  CASE fov.kind = "PixelScale" -> RMul(Resolution(f), RInt(fov.n))
          [] fov.kind = "PixelScaleAt" ->
                RMul(PixelScaleGet(f.pixel_scale, f.observer, PhotometryFrom(fov.band)),
                     RInt(fov.n))
          [] fov.kind = "SkyAngle" -> fov.val
FieldOfViewGetPanics(f) ==
    LET fov == f.field_of_view
    IN  CASE fov.kind = "PixelScale" -> ResolutionPanics(f)
          [] fov.kind = "PixelScaleAt" ->
                ~PhotometryFrom(fov.band).known \/ PixelScalePanics(f.pixel_scale)
          [] fov.kind = "SkyAngle" -> FALSE
\* FieldOfView::to_pixelscale_ratio
ToPixelScaleRatio(f) ==
    LET fov == f.field_of_view
    IN  CASE fov.kind = "PixelScale" -> RInt(fov.n)
          [] fov.kind = "PixelScaleAt" -> RDiv(FieldOfViewGet(f), Resolution(f))
          [] fov.kind = "SkyAngle" -> RDiv(fov.val, Resolution(f))
ToPixelScaleRatioPanics(f) ==
    LET fov == f.field_of_view
    IN  CASE fov.kind = "PixelScale" -> FALSE
          [] fov.kind = "PixelScaleAt" -> FieldOfViewGetPanics(f) \/ ResolutionPanics(f)
          [] fov.kind = "SkyAngle" -> ResolutionPanics(f)

----------------------------------------------------------------------------
(* Stars *)

Star(x, y, magnitude) == [x |-> x, y |-> y, magnitude |-> magnitude]
\* Star::inside_box; a comparison with a NaN or infinite coordinate is false
InsideBox(star, width) ==
    LET h == RMul(width, <<1, 2>>)
    IN  /\ IsFinite(star.x) /\ IsFinite(star.y)
        /\ RLe(RAbs(star.x.v), h)
        /\ RLt(RAbs(star.y.v), h)
NonFinite(star) ==
    ~IsFinite(star.x) \/ ~IsFinite(star.y) \/ ~IsFinite(star.magnitude)

----------------------------------------------------------------------------
(* Sampling of the working grid, the first statements of Field::intensity *)

\* n_dft left as the ceiling gives it, without the parity match
ParityUnmatched(intensity_sampling, n_dft) == n_dft
\* n_dft after the parity match with intensity_sampling
ParityMatch(intensity_sampling, n_dft) ==
    IF intensity_sampling > n_dft /\ intensity_sampling % 2 # n_dft % 2
    THEN n_dft + 1
    ELSE n_dft
\* intensity_sampling = ceil(b * field of view in pixels)
IntensitySampling(b, ratio) == RCeil(RMul(RInt(b), ratio))
\* pupil_size = b * wavelength / resolution
PupilSize(b, wavelength, resolution) == RDiv(RMul(RInt(b), wavelength), resolution)
\* n_dft = ceil(pupil_size / pupil resolution), before the parity match
DftSampling(pupil_size, d) == RCeil(RDiv(pupil_size, d))
\* the sampling Field::intensity works with
Sampling(f) ==
    LET b == ToNyquistClampedRatio(f.pixel_scale, f.observer, f.photometry)
        is == IntensitySampling(b, ToPixelScaleRatio(f))
        pupil_size == PupilSize(b, f.photometry.wavelength, Resolution(f))
    IN  [b |-> b, intensity_sampling |-> is, pupil_size |-> pupil_size,
         n_dft |-> ParityMatch(is, DftSampling(pupil_size, f.observer.resolution))]
\* the pixel count Field::save lays the image out with
SaveNPx(f) == RCeil(ToPixelScaleRatio(f))

\* offsets taken by rounding down instead of to the nearest integer
StarShiftFloored(f, samp, star) ==
    LET alpha == RDiv(Resolution(f), RInt(samp.b))
        x0 == -RFloor(RDiv(star.y.v, alpha))
        y0 == RFloor(RDiv(star.x.v, alpha))
    IN  [x0 |-> x0, y0 |-> y0,
         fr_x0 |-> RSub(RNeg(star.y.v), RMul(RInt(x0), alpha)),
         fr_y0 |-> RSub(star.x.v, RMul(RInt(y0), alpha)),
         hx |-> R0, hy |-> R0]
\* whole-pixel offsets and the pupil tilt that carries the residual
StarShift(f, samp, star) ==
    LET alpha == RDiv(Resolution(f), RInt(samp.b))
        x == star.x.v
        y == star.y.v
        x0 == -RRound(RDiv(y, alpha))
        y0 == RRound(RDiv(x, alpha))
        fr_x0 == RSub(RNeg(y), RMul(RInt(x0), alpha))
        fr_y0 == RSub(x, RMul(RInt(y0), alpha))
        half == IF samp.intensity_sampling % 2 = 0
                THEN RDiv(<<1, 2>>, samp.pupil_size) ELSE R0
    IN  [x0 |-> x0, y0 |-> y0, fr_x0 |-> fr_x0, fr_y0 |-> fr_y0,
         hx |-> RAdd(half, RDiv(fr_x0, f.photometry.wavelength)),
         hy |-> RAdd(half, RDiv(fr_y0, f.photometry.wavelength))]

\* the star's photon count in api/src/field
NPhotonOf(f, star) ==
    IF f.flux.some THEN FS(f.flux.v)
    ELSE ScaleF(NPhoton(f.photometry, star.magnitude),
                RMul(f.exposure, RMul(f.observer.resolution, f.observer.resolution)))
\* Observer::area, from the pupil without tilt
Area(obs) ==
    With(LAMBDA p:
        RMul(RInt(Cardinality({k \in DOMAIN p : ~FIsZero(CNormSqr(p[k]))})),
             RMul(obs.resolution, obs.resolution)),
        Pupil(obs, R0, R0))
\* the star's photon count in src/field
LegacyNPhoton(f, star) ==
    ScaleF(NPhoton(f.photometry, star.magnitude), RMul(Area(f.observer), f.exposure))

\* pupil.iter_mut().for_each(|p| *p *= n_photon.sqrt())
ScalePupil(pupil, amplitude) ==
    With2(LAMBDA p, a:
        [k \in DOMAIN p |-> IF IsFinite(a) THEN CScale(a.v, p[k]) ELSE CNaN],
        pupil, amplitude)

----------------------------------------------------------------------------
(* Optical transfer functions *)

\* the signed frequency index that the loops store at wrapped index ii
Freq(ii, n) == IF ii <= n - 1 - n \div 2 THEN ii ELSE ii - n
\* the index ii the loops of atmosphere_transfer_function store row i at:
\* the signed offset i - n_otf / 2, plus n_otf when negative
OtfStorageIndex(i, n_otf) ==
    IF i - n_otf \div 2 < 0 THEN i - n_otf \div 2 + n_otf ELSE i - n_otf \div 2
\* a transfer function without the branch for the origin
PhaseTransferFunctionNoOrigin(r2, r0) ==
    IF RLe(RMul(<<16, 1>>, r2), RMul(r0, r0)) THEN <<3, 4>>
    ELSE IF RLe(RMul(<<4, 1>>, r2), RMul(r0, r0)) THEN <<1, 2>>
    ELSE <<1, 4>>
\* optust::phase::transfer_function: 1 at the origin; elsewhere the code
\* evaluates exp(covariance - variance) with Bessel and Gamma functions, for
\* which a decreasing step function of separation / r0 stands in
PhaseTransferFunction(r2, r0) ==
    IF r2 = R0 THEN R1
    ELSE IF RLe(RMul(<<16, 1>>, r2), RMul(r0, r0)) THEN <<3, 4>>
    ELSE IF RLe(RMul(<<4, 1>>, r2), RMul(r0, r0)) THEN <<1, 2>>
    ELSE <<1, 4>>
\* atmosphere_transfer_function
AtmosphereTransferFunction(r0, big_l0, d, n_otf) ==
    [kk \in 0 .. n_otf * n_otf - 1 |->
        With2(LAMBDA x, y:
                With(LAMBDA r2: Cx(SRat(PhaseTransferFunction(r2, r0)), S0),
                     RAdd(RMul(x, x), RMul(y, y))),
              RMul(RInt(Freq(kk \div n_otf, n_otf)), d),
              RMul(RInt(Freq(kk % n_otf, n_otf)), d))]

\* pupil sampling of the adaptive-optics transfer function, in mm
DELTA_0 == 25
\* smallest DFT the adaptive-optics transfer function is computed with
MinTfDft == 4096
\* a guard that would also reject a sampling of exactly DELTA_0
TfAcceptsCoarserOnly(d) == RLt(RInt(DELTA_0), d)
\* TransferFunction::new accepts the pupil sampling d
TfAccepts(d) == ~RLt(d, RInt(DELTA_0))
\* kappa of TransferFunction::new
TfKappa(d) == RCeil(RDiv(d, RInt(DELTA_0)))
\* the size of the DFT TransferFunction::new allocates
TfDftSize(kappa, n_otf) ==
    IF kappa * n_otf > MinTfDft THEN kappa * n_otf ELSE MinTfDft
NoTf == [some |-> FALSE, n |-> 0, n_otf |-> 0, d |-> R0, kappa |-> 0]
\* TransferFunction::new, where it returns
TransferFunctionNew(n_otf, d) ==
    [some |-> TRUE, n |-> TfDftSize(TfKappa(d), n_otf), n_otf |-> n_otf, d |-> d,
     kappa |-> TfKappa(d)]
\* AdaptiveOpticsCorrection::transfer_function: n_otf^2 values, 1 at the
\* origin; the residual phase structure function, which the code integrates
\* over a 4096^2 spectrum, is stood in for by the atmospheric one weighted by
\* the part of the variance a Strehl ratio leaves uncorrected
AoTransferFunction(aoc, tf, r0, big_l0) ==
    With2(LAMBDA atm, s:
        [k \in DOMAIN atm |->
            CAdd(Cx(SRat(s), S0), CScale(RSub(R1, s), atm[k]))],
        AtmosphereTransferFunction(r0, big_l0, tf.d, tf.n_otf), aoc.strehl_ratio)


\* TurbulenceProfile::new: the heights of the layers, in m
TurbulenceHeights == <<25, 275, 425, 1250, 4000, 8000, 13000>>
\* self.guide_star.unwrap_or_default(): Star::default() is a star at the
\* field centre
GuideStarOrDefault(aoc) ==
    IF aoc.guide_star.some THEN aoc.guide_star.star
    ELSE Star(FS(R0), FS(R0), FS(R0))
\* (delta_x, delta_y): the target minus the guide star, in micro-radians
GuideStarOffset(aoc, star) ==
    <<RSub(star.x.v, GuideStarOrDefault(aoc).x.v),
      RSub(star.y.v, GuideStarOrDefault(aoc).y.v)>>
\* df = (d / kappa).recip() / (n - 1), in 1/mm, and the frequency q * df of
\* index i, q = i - n / 2
TfFrequencyStep(tf) == RDiv(RInt(tf.kappa), RMul(tf.d, RInt(tf.n - 1)))
TfFrequency(tf, i) == RMul(RInt(i - tf.n \div 2), TfFrequencyStep(tf))
\* red / (2 pi) = h * (x * delta_x + y * delta_y), in turns, for h in m, x and
\* y in 1/mm and the offset in micro-radians
LayerTurns(h, x, y, delta) ==
    RMul(<<h, 1000>>, RAdd(RMul(x, delta[1]), RMul(y, delta[2])))
\* the anisoplanatism sum of w * (1 - cos(red)) over the layers, times the
\* spectrum: weights and spectrum are positive and 1 - cos(red) is 0 for a
\* whole number of turns and positive otherwise, so the term is 0 exactly
\* when every layer's angle is a whole number of turns
AnisoplanatismIsZero(x, y, delta) ==
    \A l \in 1 .. Len(TurbulenceHeights) :
        RIsInt(LayerTurns(TurbulenceHeights[l], x, y, delta))
\* what transfer_function computes for cell (i, j) of the spectrum
PsdCell(aoc, tf, star, i, j) ==
    [called |-> TRUE, aoc |-> aoc, star |-> star, i |-> i, j |-> j,
     delta |-> GuideStarOffset(aoc, star),
     anisoplanatism_zero |->
        AnisoplanatismIsZero(TfFrequency(tf, i), TfFrequency(tf, j),
                             GuideStarOffset(aoc, star))]

----------------------------------------------------------------------------
(* Observing modes: the intensity tile of one star *)

\* Observing<DiffractionLimited>::intensity on an engine of size n_dft
DiffractionLimitedIntensity(n_dft, pupil, intensity_sampling) ==
    ZpNormSqr(ZpResize(ZpShift(ZpProcess(
        ZpZeroPadding(ZpReset(ZpForward(n_dft)), pupil))), intensity_sampling))
\* Observing<SeeingLimited>::intensity and Observing<AdaptiveOptics>::intensity
\* once the transfer function is known
ToComplex(psf) == With(LAMBDA a: [k \in DOMAIN a |-> CReal(a[k])], psf)
FilteredIntensity(n_dft, otf, pupil, intensity_sampling) ==
    With(LAMBDA zp_dft:
        With(LAMBDA zp_idft:
            ZpNorm(ZpResize(ZpShift(ZpProcess(
                ZpZeroPadding(zp_dft, zp_idft.buf))), intensity_sampling)),
            ZpFilter(ZpProcess(ZpZeroPadding(ZpInverse(n_dft),
                        ToComplex(ZpNormSqr(zp_dft)))), otf)),
        ZpProcess(ZpZeroPadding(ZpReset(ZpForward(n_dft)), pupil)))

\* The same two methods on the engines the observing mode keeps from one
\* star to the next: the engines they leave and the tile
DiffractionLimitedOn(zp_dft, pupil, intensity_sampling) ==
    With(LAMBDA e: [fft |-> e, tile |-> ZpNormSqr(e)],
         ZpResize(ZpShift(ZpProcess(ZpZeroPadding(ZpReset(zp_dft), pupil))),
                  intensity_sampling))
FilteredOn(zp_dft, zp_idft, otf, pupil, intensity_sampling) ==
    With(LAMBDA d1:
        With(LAMBDA i1:
            With(LAMBDA d2: [fft |-> d2, ifft |-> i1, tile |-> ZpNorm(d2)],
                 ZpResize(ZpShift(ZpProcess(ZpZeroPadding(d1, i1.buf))),
                          intensity_sampling)),
            ZpFilter(ZpProcess(ZpZeroPadding(zp_idft, ToComplex(ZpNormSqr(d1)))), otf)),
        ZpProcess(ZpZeroPadding(ZpReset(zp_dft), pupil)))

----------------------------------------------------------------------------
(* Photon noise.  Poisson::new(lambda) is an error unless lambda > 0. *)

PoissonAccepts(i) == ~i.nan /\ SSign(i.v) > 0
\* api/src/field/field.rs: every sample goes through Poisson::new(..).unwrap()
FieldNoisePanics(intensity) ==
    With(LAMBDA a: \E k \in DOMAIN a : ~PoissonAccepts(a[k]), intensity)
FieldNoise(intensity, draw) ==
    [k \in DOMAIN intensity |-> Fin(SRat(RInt(draw)))]
\* api/src/field/intensity/serial.rs: samples equal to 0 are left alone
SerialNoisePanics(intensity) ==
    With(LAMBDA a: \E k \in DOMAIN a : ~FIsZero(a[k]) /\ ~PoissonAccepts(a[k]),
         intensity)
SerialNoise(intensity, draw) ==
    With(LAMBDA a:
        [k \in DOMAIN a |-> IF FIsZero(a[k]) THEN F0 ELSE Fin(SRat(RInt(draw)))],
        intensity)
\* src/field/field.rs: inorm = n_photon / intensity_sum, an f64 division
\* (0/0 is NaN and x/0 an infinity: both are marked not finite)
SInv(a) ==
    LET den == RSub(RMul(a.p, a.p), RMul(<<2, 1>>, RMul(a.q, a.q)))
    IN  [p |-> RDiv(a.p, den), q |-> RNeg(RDiv(a.q, den))]
Inorm(n_photon, intensity_sum) ==
    IF ~IsFinite(n_photon) \/ intensity_sum.nan \/ FIsZero(intensity_sum)
    THEN NaN
    ELSE Fin(SScale(n_photon.v, SInv(intensity_sum.v)))
LegacyNoisePanics(intensity, inorm) ==
    With2(LAMBDA a, c: \E k \in DOMAIN a : ~PoissonAccepts(FMul(a[k], c)),
          intensity, inorm)
LegacyScale(intensity, inorm) ==
    With2(LAMBDA a, c: [k \in DOMAIN a |-> FMul(a[k], c)], intensity, inorm)

----------------------------------------------------------------------------
(* Stacking and binning *)

\* a stacking loop that would assign the tile sample where the code adds it
ShiftAndSet(buffer, x0, y0, n, intensity) ==
    With2(LAMBDA buf, tile:
        [kk \in DOMAIN buf |->
            With2(LAMBDA i, j:
                    IF i >= 0 /\ i < n /\ j >= 0 /\ j < n
                    THEN tile[i * n + j]
                    ELSE buf[kk],
                  kk \div n - x0, (kk % n) - y0)],
        buffer, intensity)
\* shift_and_add, and the same loop inlined in both Field::intensity
ShiftAndAdd(buffer, x0, y0, n, intensity) ==
    With2(LAMBDA buf, tile:
        [kk \in DOMAIN buf |->
            With2(LAMBDA i, j:
                    IF i >= 0 /\ i < n /\ j >= 0 /\ j < n
                    THEN FAdd(buf[kk], tile[i * n + j])
                    ELSE buf[kk],
                  kk \div n - x0, (kk % n) - y0)],
        buffer, intensity)
\* the sum of the m x m block of a side-wide array whose corner is (ii, jj)
BinSum(a, side, ii, jj, m) ==
    FSumTo(LAMBDA t: a[(ii + t \div m) * side + jj + (t % m)], m * m)
\* the binning loop inlined in api/src/field/field.rs and src/field/field.rs
InlineBinning(intensity_sampling, m, buffer) ==
    With2(LAMBDA buf, n:
        [k \in 0 .. n * n - 1 |->
            BinSum(buf, intensity_sampling, (k \div n) * m, (k % n) * m, m)],
        buffer, intensity_sampling \div m)
\* binning of api/src/field/intensity.rs
CropColumns(buffer, intensity_sampling, n_buffer, h) ==
    With(LAMBDA buf:
        [r \in 0 .. intensity_sampling * n_buffer - 1 |->
            buf[(r \div n_buffer) * intensity_sampling + h + (r % n_buffer)]],
        buffer)
CropRowsTransposed(rows, n_buffer, h) ==
    With(LAMBDA a:
        [c \in 0 .. n_buffer * n_buffer - 1 |->
            a[(c \div n_buffer) + h * n_buffer + (c % n_buffer) * n_buffer]],
        rows)
Binning(intensity_sampling, m, buffer) ==
    With2(LAMBDA n, n_buffer:
        With2(LAMBDA h, buf:
            With(LAMBDA matched_buffer:
                [k \in 0 .. n * n - 1 |->
                    BinSum(matched_buffer, n_buffer, (k \div n) * m, (k % n) * m, m)],
                CropRowsTransposed(
                    CropColumns(buf, intensity_sampling, n_buffer, h), n_buffer, h)),
            (intensity_sampling - n_buffer) \div 2, buffer),
        intensity_sampling \div m, (intensity_sampling \div m) * m)

----------------------------------------------------------------------------
(* Seeing builder and adaptive-optics correction *)

NoStar == [some |-> FALSE, star |-> Star(FS(R0), FS(R0), FS(R0))]
NoAo == [some |-> FALSE, kind |-> "", strehl_ratio |-> R0, guide_star |-> NoStar,
         radius |-> R0]
NoSeeing == [some |-> FALSE, fried_parameter |-> R0, outer_scale |-> R0,
             adaptive_optics |-> NoAo]
\* the outer scale, in m, SeeingBuilder::new sets
DefaultOuterScale == 25
\* SeeingBuilder::new
SeeingBuilderNew(fried_parameter) ==
    [some |-> TRUE, fried_parameter |-> fried_parameter,
     outer_scale |-> RInt(DefaultOuterScale), adaptive_optics |-> NoAo]
\* the assertion of SeeingBuilder::glao
GlaoAccepts(corrected_fraction) == RLt(corrected_fraction, R1)
\* SeeingBuilder::glao, where the assertion holds
SeeingGlao(sb, corrected_fraction) ==
    [sb EXCEPT !.fried_parameter = RDiv(@, RSub(R1, corrected_fraction))]
\* the Strehl ratio guard of SeeingBuilder::ngao and SeeingBuilder::ltao
StrehlAccepted(strehl_ratio) == ~RLt(strehl_ratio, <<1, 2>>)
NgaoAccepts(strehl_ratio) == StrehlAccepted(strehl_ratio)
\* a builder method that would take any Strehl ratio
StrehlUnguarded(strehl_ratio) == TRUE
LtaoAccepts(strehl_ratio) == StrehlAccepted(strehl_ratio)
\* AdaptiveOpticsCorrection::new
AdaptiveOpticsCorrectionNew(strehl_ratio, guide_star) ==
    [some |-> TRUE, kind |-> "ngao", strehl_ratio |-> strehl_ratio,
     guide_star |-> guide_star, radius |-> R0]
\* AdaptiveOpticsCorrection::ltao
AdaptiveOpticsCorrectionLtao(strehl_ratio, radius) ==
    [some |-> TRUE, kind |-> "ltao", strehl_ratio |-> strehl_ratio,
     guide_star |-> NoStar, radius |-> radius]
\* SeeingBuilder::wavelength: the factor (wavelength / V wavelength)^1.2 is 1
\* in the V band, the only band the Fried parameter is scaled to here
SeeingWavelength(sb, phot) ==
    CASE ~sb.some -> sb
      [] sb.some /\ phot.wavelength = Wavelength("V") -> sb


\* The builder with its two lengths held as f64 scalars, which follows the
\* arithmetic of its methods through NaN and the infinities.
\* f64 comparison a < b: false when either side is NaN
LtF(a, b) ==
    CASE a.cls = "nan" \/ b.cls = "nan" -> FALSE
      [] a.cls = "fin" /\ b.cls = "fin" -> RLt(a.v, b.v)
      [] a.cls = "ninf" /\ b.cls # "nan" -> b.cls # "ninf"
      [] a.cls = "pinf" /\ b.cls # "nan" -> FALSE
      [] a.cls = "fin" /\ b.cls \in {"pinf", "ninf"} -> b.cls = "pinf"
\* 1. - f
OneMinusF(f) ==
    CASE f.cls = "fin" -> FS(RSub(R1, f.v))
      [] f.cls = "nan" -> SNaN
      [] f.cls = "pinf" -> SNInf
      [] f.cls = "ninf" -> SPInf
\* the sign of an f64 that is not NaN (a zero counts as positive)
SignF(f) ==
    CASE f.cls = "fin" -> IF f.v[1] < 0 THEN -1 ELSE 1
      [] f.cls = "pinf" -> 1
      [] f.cls = "ninf" -> -1
InfOfSign(sg) == IF sg < 0 THEN SNInf ELSE SPInf
\* a * b
MulF(a, b) ==
    CASE a.cls = "nan" \/ b.cls = "nan" -> SNaN
      [] a.cls = "fin" /\ b.cls = "fin" -> FS(RMul(a.v, b.v))
      [] a.cls = "fin" /\ b.cls \in {"pinf", "ninf"} ->
            IF a.v = R0 THEN SNaN ELSE InfOfSign(SignF(a) * SignF(b))
      [] a.cls \in {"pinf", "ninf"} /\ b.cls = "fin" ->
            IF b.v = R0 THEN SNaN ELSE InfOfSign(SignF(a) * SignF(b))
      [] a.cls \in {"pinf", "ninf"} /\ b.cls \in {"pinf", "ninf"} ->
            InfOfSign(SignF(a) * SignF(b))
\* a / b
DivF(a, b) ==
    CASE a.cls = "nan" \/ b.cls = "nan" -> SNaN
      [] a.cls = "fin" /\ b.cls = "fin" /\ b.v # R0 -> FS(RDiv(a.v, b.v))
      [] a.cls = "fin" /\ b.cls = "fin" /\ b.v = R0 ->
            IF a.v = R0 THEN SNaN ELSE InfOfSign(SignF(a))
      [] a.cls = "fin" /\ b.cls \in {"pinf", "ninf"} -> FS(R0)
      [] a.cls \in {"pinf", "ninf"} /\ b.cls = "fin" -> InfOfSign(SignF(a) * SignF(b))
      [] a.cls \in {"pinf", "ninf"} /\ b.cls \in {"pinf", "ninf"} -> SNaN
\* the integer whose fifth power is n, for n a fifth power
FifthRoot(n) == CHOOSE r \in 0 .. n : r * r * r * r * r = n
\* c.powf(3 / 5) for the cosine c of a zenith angle: NaN for a negative
\* base, exact on fifth powers of rationals
PowThreeFifths(c) ==
    IF c[1] < 0 THEN SNaN
    ELSE FS(<<FifthRoot(c[1]) * FifthRoot(c[1]) * FifthRoot(c[1]),
              FifthRoot(c[2]) * FifthRoot(c[2]) * FifthRoot(c[2])>>)
\* (wavelength / V wavelength).powf(1.2) for a known band, to the nearest
\* quarter: exact in V, the irrational powers rounded elsewhere
PowSixFifths(band) ==
    CASE band = "V" -> R1
      [] band = "R" -> <<5, 4>>
      [] band = "I" -> <<3, 2>>
      [] band = "J" -> <<5, 2>>
      [] band = "H" -> <<15, 4>>
      [] band = "K" -> <<21, 4>>

\* SeeingBuilder::new
SbNew(fried_parameter) ==
    [some |-> TRUE, fried_parameter |-> fried_parameter,
     outer_scale |-> FS(RInt(DefaultOuterScale)), adaptive_optics |-> NoAo]
\* SeeingBuilder::outer_scale
SbOuterScale(sb, outer_scale) == [sb EXCEPT !.outer_scale = outer_scale]
\* SeeingBuilder::zenith_angle, for a zenith angle of cosine c
SbZenithAngle(sb, c) ==
    [sb EXCEPT !.fried_parameter = MulF(@, PowThreeFifths(c))]
\* the assertion of SeeingBuilder::glao
SbGlaoAccepts(corrected_fraction) == LtF(corrected_fraction, FS(R1))
\* a correction that would scale the Fried parameter the other way
SbGlaoShrinks(sb, corrected_fraction) ==
    [sb EXCEPT !.fried_parameter = MulF(@, OneMinusF(corrected_fraction))]
\* SeeingBuilder::glao, where the assertion holds
SbGlao(sb, corrected_fraction) ==
    [sb EXCEPT !.fried_parameter = DivF(@, OneMinusF(corrected_fraction))]
\* SeeingBuilder::wavelength for a known band
SbWavelength(sb, band) ==
    [sb EXCEPT !.fried_parameter =
        MulF(@, FS(PowSixFifths(band)))]
\* SeeingBuilder::ngao and SeeingBuilder::ltao, where the guard passes
SbNgao(sb, strehl_ratio, guide_star) ==
    [sb EXCEPT !.adaptive_optics = AdaptiveOpticsCorrectionNew(strehl_ratio, guide_star)]
SbLtao(sb, strehl_ratio, radius) ==
    [sb EXCEPT !.adaptive_optics = AdaptiveOpticsCorrectionLtao(strehl_ratio, radius)]

----------------------------------------------------------------------------
(* Field::intensity, step by step.  impl names the implementation:
   "field" is api/src/field/field.rs, "serial" is
   api/src/field/intensity/serial.rs and "legacy" is src/field/field.rs. *)

\* the panic messages of the configuration checks
StrehlMessage == "Strel ratio must be at least 0.5 or higher"
GlaoMessage == "GLAO fraction of correction should be less that 1"
BandMessage == "expected the photometric band: V, R, I, J, H or K"
SamplingMessage == "Pupil sampling is too small, must be greater or equal to 2.5cm"
SeeingMessage == "seeing is not declared"

EmptyArray == [k \in {} |-> F0]
NoEngine == [fft |-> 0, ifft |-> 0, otf |-> EmptyArray, tf |-> NoTf, n_init |-> 0]

\* Intensity::init_fft of the three observing modes: the engine it leaves,
\* the stages it went through and the panic it ended with, if any
InitFft(eng, mode, sb, n_dft, d) ==
    CASE mode = "DiffractionLimited" ->
            [abort |-> "", stages |-> <<"fft">>,
             engine |-> [eng EXCEPT !.fft = n_dft, !.n_init = @ + 1]]
      [] mode = "SeeingLimited" /\ ~sb.some ->
            [abort |-> SeeingMessage, stages |-> <<"fft", "ifft">>,
             engine |-> [eng EXCEPT !.fft = n_dft, !.ifft = n_dft]]
      [] mode = "SeeingLimited" /\ sb.some ->
            [abort |-> "", stages |-> <<"fft", "ifft", "otf">>,
             engine |-> [eng EXCEPT !.fft = n_dft, !.ifft = n_dft,
                            !.otf = AtmosphereTransferFunction(
                                sb.fried_parameter, sb.outer_scale, d, n_dft),
                            !.n_init = @ + 1]]
      [] mode = "AdaptiveOptics" /\ ~(sb.some /\ sb.adaptive_optics.some) ->
            [abort |-> "", stages |-> <<"fft", "ifft">>,
             engine |-> [eng EXCEPT !.fft = n_dft, !.ifft = n_dft, !.n_init = @ + 1]]
      [] mode = "AdaptiveOptics" /\ sb.some /\ sb.adaptive_optics.some /\ ~TfAccepts(d) ->
            [abort |-> SamplingMessage, stages |-> <<"fft", "ifft">>,
             engine |-> [eng EXCEPT !.fft = n_dft, !.ifft = n_dft]]
      [] mode = "AdaptiveOptics" /\ sb.some /\ sb.adaptive_optics.some /\ TfAccepts(d) ->
            [abort |-> "", stages |-> <<"fft", "ifft", "transfer_function">>,
             engine |-> [eng EXCEPT !.fft = n_dft, !.ifft = n_dft,
                            !.tf = TransferFunctionNew(n_dft, d),
                            !.n_init = @ + 1]]

\* Observing<Mode>::intensity returns None for want of an engine init_fft
\* makes (an engine of size 0 stands for a field that is None)
IntensityIsNone(mode, sb, eng) ==
    CASE mode = "DiffractionLimited" -> eng.fft = 0
      [] mode = "SeeingLimited" -> eng.fft = 0 \/ eng.ifft = 0 \/ eng.otf = EmptyArray
      [] mode = "AdaptiveOptics" -> eng.fft = 0 \/ eng.ifft = 0 \/ ~sb.some
\* Observing<Mode>::intensity yields no tile: Field::intensity unwraps None
IntensityPanics(mode, sb) ==
    mode = "AdaptiveOptics" /\ ~(sb.some /\ sb.adaptive_optics.some)
\* Observing<Mode>::intensity
ModeIntensity(mode, sb, eng, pupil, intensity_sampling) ==
    With2(LAMBDA p, otf:
        IF mode = "DiffractionLimited"
        THEN DiffractionLimitedIntensity(eng.fft, p, intensity_sampling)
        ELSE FilteredIntensity(eng.fft, otf, p, intensity_sampling),
        pupil,
        CASE mode = "DiffractionLimited" -> EmptyArray
          [] mode = "SeeingLimited" -> eng.otf
          [] mode = "AdaptiveOptics" ->
                AoTransferFunction(sb.adaptive_optics, eng.tf,
                                   sb.fried_parameter, sb.outer_scale))

\* the tile of one accepted star in api/src/field, before the noise step
ApiTile(f, samp, eng, star) ==
    With(LAMBDA sh:
        ModeIntensity(f.mode, f.seeing, eng,
                      ScalePupil(Pupil(f.observer, sh.hx, sh.hy),
                                 SqrtF(NPhotonOf(f, star))),
                      samp.intensity_sampling),
        StarShift(f, samp, star))
\* the tile of one accepted star in src/field, before normalization
LegacyTile(f, samp, eng, star) ==
    With(LAMBDA sh:
        ModeIntensity(f.mode, f.seeing, eng, Pupil(f.observer, sh.hx, sh.hy),
                      samp.intensity_sampling),
        StarShift(f, samp, star))
\* an f64 scalar as an array cell; an infinity is not finite
CellOf(f) == IF IsFinite(f) THEN Fin(SRat(f.v)) ELSE NaN

\* the noise step of each implementation: panics, or the tile it leaves
NoisePanics(f, intensity, inorm) ==
    /\ f.poisson_noise
    /\ CASE f.impl = "field" -> FieldNoisePanics(intensity)
         [] f.impl = "serial" -> SerialNoisePanics(intensity)
         [] f.impl = "legacy" -> LegacyNoisePanics(intensity, inorm)
NoiseStep(f, intensity, inorm, draw) ==
    CASE f.impl = "field" ->
            IF f.poisson_noise THEN FieldNoise(intensity, draw) ELSE intensity
      [] f.impl = "serial" ->
            IF f.poisson_noise THEN SerialNoise(intensity, draw) ELSE intensity
      [] f.impl = "legacy" ->
            IF f.poisson_noise THEN FieldNoise(intensity, draw)
            ELSE LegacyScale(intensity, inorm)
\* what the stacking loop adds for each tile sample
Contribution(f, noisy, n_photon) ==
    IF f.impl = "legacy"
    THEN With2(LAMBDA a, c: [k \in DOMAIN a |-> FMul(a[k], c)], noisy, CellOf(n_photon))
    ELSE noisy
\* the tail of Field::intensity: the working buffer, or its binning by b
Output(f, samp, buf) ==
    IF samp.b = 1 THEN buf
    ELSE IF f.impl = "serial" THEN Binning(samp.intensity_sampling, samp.b, buf)
    ELSE InlineBinning(samp.intensity_sampling, samp.b, buf)
\* the side of a square array
Side(a) == ISqrt(ALen(a))

----------------------------------------------------------------------------
(* The inputs explored.  The telescope is 40 mm wide, so that its pupil is a
   3 x 3 grid at the default 25 mm resolution and the DFT of a Nyquist
   sampled image has 4 x 4 samples; star offsets are multiples of half a
   working pixel; every phase is then a multiple of an eighth of a turn. *)

Diameter == <<40, 1>>
Impls == {"field", "serial", "legacy"}
Modes == {"DiffractionLimited", "SeeingLimited", "AdaptiveOptics"}
\* the Nyquist angle of the telescope in V, 0.5 * 550 / 40
NyquistV == <<55, 8>>
BasePixelScale == Nyquist(1)
PixelScales ==
    {Nyquist(1), Nyquist(2), NyquistAt(1, "V"), NyquistAt(1, "X"),
     NyquistFraction(1), PixelSkyAngle(RMul(<<2, 1>>, NyquistV))}
BaseFieldOfView == FovPixelScale(4)
FieldsOfView ==
    {FovPixelScale(4), FovPixelScale(3), FovPixelScale(6), FovPixelScaleAt(4, "V"),
     FovPixelScaleAt(4, "X"), FovSkyAngle(RMul(<<12, 5>>, NyquistV))}
\* no obscuration, a central obscuration, one wider than the pupil
Obscurations == {R0, <<10, 1>>, <<30, 1>>}
\* Observer::resolution: the default and a finer one
DefaultResolution == <<25, 1>>
Resolutions == {DefaultResolution, <<20, 1>>}
BandNames == {"V", "X"}
\* exposure for which a magnitude 0 star sends 4 photons through a sample
BaseExposure == Rat(4, 5606250)
Fluxes == {NoneF, SomeF(<<4, 1>>)}
Centre == Star(FS(R0), FS(R0), FS(R0))
StarAt(x, y) == Star(FS(x), FS(y), FS(R0))
StarOfMagnitude(m) == Star(FS(R0), FS(R0), m)
BaseObjects == <<Centre>>
ObjectLists ==
    {<<Centre>>, <<>>,
     <<StarAt(<<55, 16>>, R0)>>, <<StarAt(R0, <<55, 8>>)>>,
     <<StarAt(<<1000, 1>>, R0)>>,
     <<Star(SNaN, FS(R0), FS(R0))>>, <<Star(FS(R0), SPInf, FS(R0))>>,
     <<StarOfMagnitude(SNaN)>>, <<StarOfMagnitude(SNInf)>>,
     <<StarOfMagnitude(SPInf)>>, <<StarOfMagnitude(FS(<<5, 1>>))>>,
     <<Centre, StarAt(<<55, 8>>, <<55, 16>>)>>,
     <<StarAt(<<55, 8>>, <<55, 16>>), Centre>>}
FriedParameters == {<<100, 1>>}
CorrectedFractions == {<<1, 2>>, R1}
StrehlRatios == {<<49, 100>>, <<1, 2>>}
LaserRadii == {<<100, 1>>}
\* values a Poisson draw of positive mean may return
PoissonSamples == {0, 3}
\* how many settings of a field may depart from the base configuration
MaxDepart == 2
\* how many times glao is applied to a seeing builder
MaxGlao == 1

B2N(b) == IF b THEN 1 ELSE 0
Departures(mode, ps, fov, obsc, res, band, objects, noise, flux, sb) ==
    B2N(mode # "DiffractionLimited" \/ sb.some) + B2N(ps # BasePixelScale)
    + B2N(fov # BaseFieldOfView) + B2N(obsc # R0) + B2N(res # DefaultResolution)
    + B2N(band # "V") + B2N(objects # BaseObjects) + B2N(noise) + B2N(flux.some)

----------------------------------------------------------------------------
VARIABLES
    pc,        \* "builder", "ready", "stars", "done" or "aborted"
    seeing,    \* the SeeingBuilder under construction
    n_glao,    \* the number of glao calls on it
    call,      \* the latest SeeingBuilder method called, with its argument
    field,     \* the Field that was built
    samp,      \* b, intensity_sampling, pupil_size and n_dft of Field::intensity
    engine,    \* the observing mode's DFT engines and transfer function
    buffer,    \* the star image stacking buffer
    k,         \* the number of objects the loop has gone through
    last,      \* what the loop did with the latest object
    image,     \* the array Field::intensity returned
    abort,     \* the panic message, "" while there is none
    trace,     \* the stages Field::intensity has completed, in order
    zp,        \* a ZpDft engine driven through its public methods
    psd,       \* one cell of the spectrum of AdaptiveOpticsCorrection::transfer_function
    workers    \* the Field evaluations of the worker threads

\* the variables of the component-level evaluations
units == <<zp, psd, workers>>
vars == <<pc, seeing, n_glao, call, field, samp, engine, buffer, k, last, image, abort,
          trace, zp, psd, workers>>

NoCall == [op |-> "", arg |-> R0]
NoField == [built |-> FALSE]
NoSamp == [b |-> 0, intensity_sampling |-> 0, pupil_size |-> R0, n_dft |-> 0]
\* no engine under test, no spectrum cell computed
NoZp == [made |-> FALSE]
NoPsd == [called |-> FALSE]
NoLast == [star |-> 0, skipped |-> FALSE, n_photon |-> FS(R0), tile |-> EmptyArray,
           noisy |-> EmptyArray, intensity_sum |-> F0, x0 |-> 0, y0 |-> 0]

Init ==
    /\ pc = "builder"
    /\ seeing = NoSeeing
    /\ n_glao = 0
    /\ call = NoCall
    /\ field = NoField
    /\ samp = NoSamp
    /\ engine = NoEngine
    /\ buffer = EmptyArray
    /\ k = 0
    /\ last = NoLast
    /\ image = EmptyArray
    /\ abort = ""
    /\ trace = <<>>
    /\ zp = NoZp
    /\ psd = NoPsd
    /\ workers = <<>>

\* a failure that would be recorded without stopping the evaluation
PanicReturns(msg) ==
    /\ pc' = pc
    /\ abort' = msg
\* a panic: the evaluation stops with the message
Panic(msg) ==
    /\ pc' = "aborted"
    /\ abort' = msg

\* SeeingBuilder::new(fried_parameter)
SeeingNew ==
    /\ pc = "builder"
    /\ UNCHANGED units
    /\ ~seeing.some
    /\ \E r0 \in FriedParameters :
        /\ seeing' = SeeingBuilderNew(r0)
        /\ call' = [op |-> "new", arg |-> r0]
    /\ UNCHANGED <<pc, n_glao, field, samp, engine, buffer, k, last, image, abort, trace>>

\* SeeingBuilder::glao(corrected_fraction)
Glao ==
    /\ pc = "builder"
    /\ UNCHANGED units
    /\ seeing.some
    /\ n_glao < MaxGlao
    /\ \E f \in CorrectedFractions :
        /\ call' = [op |-> "glao", arg |-> f]
        /\ IF GlaoAccepts(f)
           THEN /\ seeing' = SeeingGlao(seeing, f)
                /\ n_glao' = n_glao + 1
                /\ UNCHANGED <<pc, abort>>
           ELSE /\ Panic(GlaoMessage)
                /\ UNCHANGED <<seeing, n_glao>>
    /\ UNCHANGED <<field, samp, engine, buffer, k, last, image, trace>>

\* SeeingBuilder::ngao(strehl_ratio, guide_star)
Ngao ==
    /\ pc = "builder"
    /\ UNCHANGED units
    /\ seeing.some
    /\ \E s \in StrehlRatios :
        /\ call' = [op |-> "ngao", arg |-> s]
        /\ IF NgaoAccepts(s)
           THEN /\ seeing' = [seeing EXCEPT
                       !.adaptive_optics = AdaptiveOpticsCorrectionNew(s, NoStar)]
                /\ UNCHANGED <<pc, abort>>
           ELSE /\ Panic(StrehlMessage)
                /\ UNCHANGED seeing
    /\ UNCHANGED <<n_glao, field, samp, engine, buffer, k, last, image, trace>>

\* SeeingBuilder::ltao(strehl_ratio, laser_guide_star_radius)
Ltao ==
    /\ pc = "builder"
    /\ UNCHANGED units
    /\ seeing.some
    /\ \E s \in StrehlRatios, radius \in LaserRadii :
        /\ call' = [op |-> "ltao", arg |-> s]
        /\ IF LtaoAccepts(s)
           THEN /\ seeing' = [seeing EXCEPT
                       !.adaptive_optics = AdaptiveOpticsCorrectionLtao(s, radius)]
                /\ UNCHANGED <<pc, abort>>
           ELSE /\ Panic(StrehlMessage)
                /\ UNCHANGED seeing
    /\ UNCHANGED <<n_glao, field, samp, engine, buffer, k, last, image, trace>>

\* FieldBuilder setters and Builder::build; the band name is converted by
\* FieldBuilder::photometry, the seeing scaled to the band by build
Build ==
    /\ pc = "builder"
    /\ UNCHANGED units
    /\ \E impl \in Impls, mode \in Modes, ps \in PixelScales, fov \in FieldsOfView,
          obsc \in Obscurations, res \in Resolutions, band \in BandNames,
          objects \in ObjectLists, noise \in BOOLEAN, flux \in Fluxes :
        /\ Departures(mode, ps, fov, obsc, res, band, objects, noise, flux, seeing)
                <= MaxDepart
        /\ mode = "DiffractionLimited" => ~seeing.some
        /\ impl = "legacy" =>
                /\ ~flux.some
                /\ mode # "AdaptiveOptics"
                /\ mode = "SeeingLimited" => seeing.some
        /\ IF PhotometryFrom(band).known
           THEN /\ field' =
                    [built |-> TRUE, impl |-> impl, mode |-> mode,
                     observer |-> [diameter |-> Diameter, resolution |-> res,
                                   obscuration |-> obsc],
                     pixel_scale |-> ps, field_of_view |-> fov,
                     photometry |-> PhotometryFrom(band), objects |-> objects,
                     exposure |-> BaseExposure, poisson_noise |-> noise,
                     flux |-> flux,
                     seeing |-> SeeingWavelength(seeing, PhotometryFrom(band))]
                /\ pc' = "ready"
                /\ UNCHANGED abort
           ELSE /\ Panic(BandMessage)
                /\ UNCHANGED field
    /\ call' = NoCall
    /\ UNCHANGED <<seeing, n_glao, samp, engine, buffer, k, last, image, trace>>

\* Field::intensity from its entry to the first iteration of the star
\* loop: the sampling, then (except in serial.rs) the DFT engines, then the
\* stacking buffer.  A band named by the pixel scale or the field of view is
\* converted here, when its value is first needed.
Start ==
    /\ pc = "ready"
    /\ UNCHANGED units
    /\ LET s == Sampling(field)
           init == IF field.impl = "serial"
                   THEN [abort |-> "", stages |-> <<>>, engine |-> engine]
                   ELSE InitFft(engine, field.mode, field.seeing, s.n_dft,
                                field.observer.resolution)
       IN  IF ToPixelScaleRatioPanics(field)
           THEN /\ Panic(BandMessage)
                /\ trace' = <<"nyquist_ratio">>
                /\ UNCHANGED <<samp, engine, buffer>>
           ELSE IF ResolutionPanics(field)
           THEN /\ Panic(BandMessage)
                /\ trace' = <<"nyquist_ratio", "intensity_sampling">>
                /\ UNCHANGED <<samp, engine, buffer>>
           ELSE IF init.abort # ""
           THEN /\ Panic(init.abort)
                /\ trace' = <<"nyquist_ratio", "intensity_sampling", "pupil_size",
                              "n_dft">> \o init.stages
                /\ samp' = s
                /\ engine' = init.engine
                /\ UNCHANGED buffer
           ELSE /\ pc' = "stars"
                /\ trace' = <<"nyquist_ratio", "intensity_sampling", "pupil_size",
                              "n_dft">> \o init.stages \o <<"buffer">>
                /\ samp' = s
                /\ engine' = init.engine
                /\ buffer' = FZeros(s.intensity_sampling * s.intensity_sampling)
                /\ UNCHANGED abort
    /\ UNCHANGED <<seeing, n_glao, call, field, k, last, image>>

\* one iteration of the star loop on an object outside the box
SkipStar ==
    /\ pc = "stars"
    /\ UNCHANGED units
    /\ k < Len(field.objects)
    /\ ~InsideBox(field.objects[k + 1],
                  RAdd(FieldOfViewGet(field), RMul(Resolution(field), <<2, 1>>)))
    /\ k' = k + 1
    /\ last' = [NoLast EXCEPT !.star = k + 1, !.skipped = TRUE]
    /\ UNCHANGED <<pc, seeing, n_glao, call, field, samp, engine, buffer, image, abort, trace>>

\* what one iteration of the star loop computes for an accepted star, up
\* to the noise step
StarOutcome(f, sa, eng, star) ==
    With2(LAMBDA init, n_photon:
        With2(LAMBDA sh, unwraps:
            With(LAMBDA tile:
                With(LAMBDA intensity_sum:
                    [init |-> init, x0 |-> sh.x0, y0 |-> sh.y0,
                     n_photon |-> n_photon, unwraps |-> unwraps, tile |-> tile,
                     intensity_sum |-> intensity_sum,
                     inorm |-> Inorm(n_photon, intensity_sum)],
                    FSum(tile)),
                IF ~unwraps THEN EmptyArray
                ELSE IF f.impl = "legacy" THEN LegacyTile(f, sa, init.engine, star)
                ELSE ApiTile(f, sa, init.engine, star)),
            StarShift(f, sa, star),
            init.abort = "" /\ ~IntensityPanics(f.mode, f.seeing)),
        IF f.impl = "serial"
        THEN InitFft(eng, f.mode, f.seeing, sa.n_dft, f.observer.resolution)
        ELSE [abort |-> "", stages |-> <<>>, engine |-> eng],
        IF f.impl = "legacy" THEN LegacyNPhoton(f, star) ELSE NPhotonOf(f, star))

\* one iteration of the star loop on an object inside the box
AddStar ==
    /\ pc = "stars"
    /\ UNCHANGED units
    /\ k < Len(field.objects)
    /\ InsideBox(field.objects[k + 1],
                 RAdd(FieldOfViewGet(field), RMul(Resolution(field), <<2, 1>>)))
    /\ \E o \in {StarOutcome(field, samp, engine, field.objects[k + 1])} :
        LET seen == [star |-> k + 1, skipped |-> FALSE, n_photon |-> o.n_photon,
                     tile |-> o.tile, noisy |-> EmptyArray,
                     intensity_sum |-> o.intensity_sum, x0 |-> o.x0, y0 |-> o.y0]
        IN  /\ engine' = o.init.engine
            /\ IF o.init.abort # ""
               THEN /\ Panic(o.init.abort)
                    /\ trace' = trace \o o.init.stages
                    /\ last' = [NoLast EXCEPT !.star = k + 1]
                    /\ UNCHANGED <<buffer, k>>
               ELSE IF ~o.unwraps
               THEN /\ Panic("called Option::unwrap() on a None value")
                    /\ trace' = trace \o o.init.stages
                    /\ last' = [NoLast EXCEPT !.star = k + 1]
                    /\ UNCHANGED <<buffer, k>>
               ELSE IF NoisePanics(field, o.tile, o.inorm)
               THEN /\ Panic("Poisson::new")
                    /\ trace' = trace \o o.init.stages \o <<"tile">>
                    /\ last' = seen
                    /\ UNCHANGED <<buffer, k>>
               ELSE \E draw \in IF field.poisson_noise THEN PoissonSamples ELSE {0} :
                    \E noisy \in {NoiseStep(field, o.tile, o.inorm, draw)} :
                        /\ buffer' = ShiftAndAdd(buffer, o.x0, o.y0,
                                        samp.intensity_sampling,
                                        Contribution(field, noisy, o.n_photon))
                        /\ last' = [seen EXCEPT !.noisy = noisy]
                        /\ trace' = trace \o o.init.stages \o <<"tile">>
                        /\ k' = k + 1
                        /\ UNCHANGED <<pc, abort>>
    /\ UNCHANGED <<seeing, n_glao, call, field, samp, image>>

\* the end of Field::intensity: the buffer is returned, binned when b > 1
Finish ==
    /\ pc = "stars"
    /\ UNCHANGED units
    /\ k = Len(field.objects)
    /\ image' = Output(field, samp, buffer)
    /\ pc' = "done"
    /\ UNCHANGED <<seeing, n_glao, call, field, samp, engine, buffer, k, last, abort, trace>>

Next ==
    \/ SeeingNew
    \/ Glao
    \/ Ngao
    \/ Ltao
    \/ Build
    \/ Start
    \/ SkipStar
    \/ AddStar
    \/ Finish

Spec == Init /\ [][Next]_vars

----------------------------------------------------------------------------
(* Field::intensity as one function of the star collection, with the DFT
   engines of the observing mode carried from each star to the next. *)

\* the engines init_fft makes
Dfts(n_dft) == [fft |-> ZpForward(n_dft), ifft |-> ZpInverse(n_dft)]
\* one iteration of the star loop on an accepted star, noise off
CarriedStar(f, sa, eng, dfts, star) ==
    With2(LAMBDA sh, n_photon:
        With2(LAMBDA pupil, start:
            With(LAMBDA r:
                With(LAMBDA intensity_sum:
                    [dfts |-> [fft |-> r.fft, ifft |-> r.ifft], x0 |-> sh.x0,
                     y0 |-> sh.y0,
                     tile |-> Contribution(f,
                                NoiseStep(f, r.tile, Inorm(n_photon, intensity_sum), 0),
                                n_photon)],
                    FSum(r.tile)),
                IF f.mode = "DiffractionLimited"
                THEN With(LAMBDA t: [fft |-> t.fft, ifft |-> start.ifft, tile |-> t.tile],
                          DiffractionLimitedOn(start.fft, pupil, sa.intensity_sampling))
                ELSE FilteredOn(start.fft, start.ifft,
                                IF f.mode = "SeeingLimited" THEN eng.otf
                                ELSE AoTransferFunction(f.seeing.adaptive_optics, eng.tf,
                                        f.seeing.fried_parameter, f.seeing.outer_scale),
                                pupil, sa.intensity_sampling)),
            IF f.impl = "legacy" THEN Pupil(f.observer, sh.hx, sh.hy)
            ELSE ScalePupil(Pupil(f.observer, sh.hx, sh.hy), SqrtF(n_photon)),
            IF f.impl = "serial" THEN Dfts(sa.n_dft) ELSE dfts),
        StarShift(f, sa, star),
        IF f.impl = "legacy" THEN LegacyNPhoton(f, star) ELSE NPhotonOf(f, star))
\* the star loop from star t of objects on, then the tail of the method
RECURSIVE StarLoop(_, _, _, _, _, _, _)
StarLoop(f, sa, eng, dfts, buf, objects, t) ==
    IF t > Len(objects) THEN Output(f, sa, buf)
    ELSE IF ~InsideBox(objects[t],
                       RAdd(FieldOfViewGet(f), RMul(Resolution(f), <<2, 1>>)))
    THEN StarLoop(f, sa, eng, dfts, buf, objects, t + 1)
    ELSE With(LAMBDA o:
            StarLoop(f, sa, eng, o.dfts,
                     ShiftAndAdd(buf, o.x0, o.y0, sa.intensity_sampling, o.tile),
                     objects, t + 1),
            CarriedStar(f, sa, eng, dfts, objects[t]))
\* Field::intensity of f on the star collection objects, noise off, once the
\* sampling sa and the transfer functions of eng are set up
IntensityOf(f, sa, eng, objects) ==
    StarLoop(f, sa, eng, Dfts(sa.n_dft),
             FZeros(sa.intensity_sampling * sa.intensity_sampling), objects, 1)
\* every ordering of a star collection
Orderings(objects) ==
    {[t \in 1 .. Len(objects) |-> objects[perm[t]]] :
        perm \in Permutations(1 .. Len(objects))}

----------------------------------------------------------------------------
(* The sampling step on its own: Field::intensity entered on fields that
   cover pixel scales, fields of view, telescope diameters and pupil
   resolutions more widely than the full evaluation can afford.  No star is
   processed, so no DFT is computed. *)

\* largest Nyquist multiple and fraction of a pixel scale
MaxFactor == 3
\* largest field of view in pixels
MaxPixels == 7
SamplingDiameters == {<<40, 1>>, <<50, 1>>, <<60, 1>>}
SamplingResolutions == {<<20, 1>>, <<25, 1>>, <<26, 1>>, <<50, 1>>, <<75, 1>>}
SamplingPixelScales ==
    {Nyquist(n) : n \in 1 .. MaxFactor}
    \cup {NyquistFraction(n) : n \in 1 .. MaxFactor}
    \cup {PixelSkyAngle(<<55, 4>>)}
SamplingFieldsOfView ==
    {FovPixelScale(n) : n \in 1 .. MaxPixels} \cup {FovSkyAngle(<<33, 2>>)}
\* a pixel scale fine enough for a DFT wider than 4096 samples
FinePixelScale == NyquistFraction(1300)
\* SeeingBuilder::new(r0).ngao(0.5, None)
SeeingNgao ==
    [SeeingBuilderNew(<<100, 1>>) EXCEPT
        !.adaptive_optics = AdaptiveOpticsCorrectionNew(<<1, 2>>, NoStar)]
SamplingField(impl, mode, dia, res, ps, fov) ==
    [built |-> TRUE, impl |-> impl, mode |-> mode,
     observer |-> [diameter |-> dia, resolution |-> res, obscuration |-> R0],
     pixel_scale |-> ps, field_of_view |-> fov,
     photometry |-> PhotometryFrom("V"), objects |-> <<>>,
     exposure |-> BaseExposure, poisson_noise |-> FALSE, flux |-> NoneF,
     seeing |-> IF mode = "AdaptiveOptics" THEN SeeingNgao ELSE NoSeeing]
SamplingFields ==
    {SamplingField(impl, mode, dia, res, ps, fov) :
        impl \in {"field", "serial"},
        mode \in {"DiffractionLimited", "AdaptiveOptics"},
        dia \in SamplingDiameters, res \in SamplingResolutions,
        ps \in SamplingPixelScales, fov \in SamplingFieldsOfView}
    \cup
    {SamplingField(impl, mode, dia, res, FinePixelScale, FovPixelScale(n)) :
        impl \in {"field", "serial"},
        mode \in {"DiffractionLimited", "AdaptiveOptics"},
        dia \in SamplingDiameters, res \in SamplingResolutions,
        n \in 1 .. MaxPixels}

SamplingInit ==
    /\ pc = "ready"
    /\ seeing = NoSeeing
    /\ n_glao = 0
    /\ call = NoCall
    /\ field \in SamplingFields
    /\ samp = NoSamp
    /\ engine = NoEngine
    /\ buffer = EmptyArray
    /\ k = 0
    /\ last = NoLast
    /\ image = EmptyArray
    /\ abort = ""
    /\ trace = <<>>
    /\ zp = NoZp
    /\ psd = NoPsd
    /\ workers = <<>>

SamplingSpec == SamplingInit /\ [][Start]_vars

----------------------------------------------------------------------------
(* AdaptiveOpticsCorrection::transfer_function, one spectrum cell at a
   time, for corrections with and without a guide star *)

(* A ZpDft engine driven through its public methods. *)

\* how many methods are called on one engine
MaxZpOps == 3
ZpLens == {2, 4}
ZpNewLens == {1, 2, 3, 4, 6}
\* n distinct samples
Samples(n) == [s \in 0 .. n - 1 |-> Cx(SRat(RInt(s + 1)), S0)]
ZpInputs == {Samples(n) : n \in {1, 3, 4, 9, 16}}
ZpKernels == {[s \in 0 .. 15 |-> Cx(S0, S1)]}
SquareMessage == "DFT input is not a square array"
BoundsMessage == "index out of bounds"
OverflowMessage == "attempt to subtract with overflow"
ChunkMessage == "buffer length is not a multiple of the FFT length"

\* ZpDft::forward and ZpDft::inverse
ZpNew ==
    /\ ~zp.made
    /\ \E e \in {ZpForward(len) : len \in ZpLens} \cup {ZpInverse(len) : len \in ZpLens} :
        zp' = [made |-> TRUE, e |-> e, ops |-> <<>>, hist |-> <<>>]
    /\ UNCHANGED <<pc, seeing, n_glao, call, field, samp, engine, buffer, k, last,
                   image, abort, trace, psd, workers>>
\* a method call on the engine: it returns with the engine as e, or panics
ZpCalls(op, arg, panics, msg, e) ==
    /\ zp' = [zp EXCEPT !.e = IF panics THEN @ ELSE e,
                        !.ops = Append(@, [op |-> op, arg |-> arg]),
                        !.hist = Append(@, zp.e)]
    /\ IF panics THEN Panic(msg) ELSE UNCHANGED <<pc, abort>>
ZpFrame ==
    /\ zp.made
    /\ pc # "aborted"
    /\ Len(zp.ops) < MaxZpOps
    /\ UNCHANGED <<seeing, n_glao, call, field, samp, engine, buffer, k, last, image,
                   trace, psd, workers>>
ZpResetCall ==
    /\ ZpFrame
    /\ ZpCalls("reset", 0, FALSE, "", ZpReset(zp.e))
ZpZeroPaddingCall ==
    /\ ZpFrame
    /\ \E input \in ZpInputs :
        CASE ~ZpIsSquare(input) ->
                ZpCalls("zero_padding", input, TRUE, SquareMessage, zp.e)
          [] ZpIsSquare(input) /\ ZpPaddingPanics(zp.e, input) ->
                ZpCalls("zero_padding", input, TRUE, BoundsMessage, zp.e)
          [] OTHER ->
                ZpCalls("zero_padding", input, FALSE, "", ZpZeroPadding(zp.e, input))
ZpProcessCall ==
    /\ ZpFrame
    /\ IF ZpProcessPanics(zp.e)
       THEN ZpCalls("process", 0, TRUE, ChunkMessage, zp.e)
       ELSE ZpCalls("process", 0, FALSE, "", ZpProcess(zp.e))
ZpShiftCall ==
    /\ ZpFrame
    /\ IF ZpShiftPanics(zp.e)
       THEN ZpCalls("shift", 0, TRUE, BoundsMessage, zp.e)
       ELSE ZpCalls("shift", 0, FALSE, "", ZpShift(zp.e))
ZpFilterCall ==
    /\ ZpFrame
    /\ \E kernel \in ZpKernels : ZpCalls("filter", kernel, FALSE, "", ZpFilter(zp.e, kernel))
ZpCropCall ==
    /\ ZpFrame
    /\ \E new_len \in ZpNewLens :
        IF ZpCropPanics(zp.e, new_len)
        THEN ZpCalls("crop", new_len, TRUE,
                     IF new_len \div 2 > zp.e.len \div 2 THEN OverflowMessage
                     ELSE BoundsMessage, zp.e)
        ELSE ZpCalls("crop", new_len, FALSE, "", ZpCrop(zp.e, new_len))
ZpResizeCall ==
    /\ ZpFrame
    /\ \E new_len \in ZpNewLens :
        IF ZpResizePanics(zp.e, new_len)
        THEN ZpCalls("resize", new_len, TRUE, BoundsMessage, zp.e)
        ELSE ZpCalls("resize", new_len, FALSE, "", ZpResize(zp.e, new_len))
ZpNext ==
    \/ ZpNew
    \/ ZpResetCall
    \/ ZpZeroPaddingCall
    \/ ZpProcessCall
    \/ ZpShiftCall
    \/ ZpFilterCall
    \/ ZpCropCall
    \/ ZpResizeCall
ZpSpec == Init /\ [][ZpNext]_vars

\* engines of every small side, their buffers filled with distinct samples,
\* to be shifted and resized
ZpCentreLens == 1 .. 5
ZpCentreInit ==
    /\ pc = "builder"
    /\ seeing = NoSeeing
    /\ n_glao = 0
    /\ call = NoCall
    /\ field = NoField
    /\ samp = NoSamp
    /\ engine = NoEngine
    /\ buffer = EmptyArray
    /\ k = 0
    /\ last = NoLast
    /\ image = EmptyArray
    /\ abort = ""
    /\ trace = <<>>
    /\ \E len \in ZpCentreLens :
        zp = [made |-> TRUE, e |-> ZpZeroPadding(ZpForward(len), Samples(len * len)),
              ops |-> <<>>, hist |-> <<>>]
    /\ psd = NoPsd
    /\ workers = <<>>
ZpCentreSpec == ZpCentreInit /\ [][ZpShiftCall \/ ZpResizeCall]_vars

(* atmosphere_transfer_function on its own. *)

\* the largest side of the grid
MaxOtf == 6
OtfFriedParameters == {<<100, 1>>, <<150, 1>>, <<200, 1>>}
OtfOuterScales == {<<25, 1>>, <<50, 1>>}
OtfSamplings == {<<25, 1>>, <<50, 1>>, <<125, 2>>}
AtmosphereOtf ==
    /\ \E r0 \in OtfFriedParameters, big_l0 \in OtfOuterScales, d \in OtfSamplings,
          n_otf \in 1 .. MaxOtf :
        call' = [op |-> "atmosphere_transfer_function",
                 arg |-> [r0 |-> r0, big_l0 |-> big_l0, d |-> d, n_otf |-> n_otf],
                 ret |-> AtmosphereTransferFunction(r0, big_l0, d, n_otf)]
    /\ UNCHANGED units
    /\ UNCHANGED <<pc, seeing, n_glao, field, samp, engine, buffer, k, last, image,
                   abort, trace>>
OtfSpec == Init /\ [][AtmosphereOtf]_vars

(* Whole Field evaluations on worker threads, as main spawns them in a
   thread scope: each worker builds its own Field from the shared star
   collection and evaluates it; the steps of the workers interleave. *)

\* how many workers the scope spawns
NWorkers == 2
WorkerStars == {<<Centre, StarAt(<<55, 8>>, <<55, 16>>)>>, <<StarAt(<<55, 16>>, R0)>>}
WorkerField(impl, mode, obsc, objects) ==
    [built |-> TRUE, impl |-> impl, mode |-> mode,
     observer |-> [diameter |-> Diameter, resolution |-> DefaultResolution,
                   obscuration |-> obsc],
     pixel_scale |-> BasePixelScale, field_of_view |-> BaseFieldOfView,
     photometry |-> PhotometryFrom("V"), objects |-> objects,
     exposure |-> BaseExposure, poisson_noise |-> FALSE, flux |-> NoneF,
     seeing |-> IF mode = "SeeingLimited" THEN SeeingBuilderNew(<<100, 1>>)
                ELSE NoSeeing]
\* the fields a worker may build from the star collection
WorkerFields(objects) ==
    {WorkerField("legacy", "DiffractionLimited", R0, objects),
     WorkerField("field", "DiffractionLimited", <<10, 1>>, objects),
     WorkerField("field", "SeeingLimited", R0, objects)}
NoWorker ==
    [pc |-> "spawned", field |-> NoField, samp |-> NoSamp, engine |-> NoEngine,
     dfts |-> Dfts(0), buffer |-> EmptyArray, k |-> 0, image |-> EmptyArray,
     abort |-> ""]
WorkersInit ==
    /\ pc = "builder"
    /\ seeing = NoSeeing
    /\ n_glao = 0
    /\ call = NoCall
    /\ field = NoField
    /\ samp = NoSamp
    /\ engine = NoEngine
    /\ buffer = EmptyArray
    /\ k = 0
    /\ last = NoLast
    /\ image = EmptyArray
    /\ abort = ""
    /\ trace = <<>>
    /\ zp = NoZp
    /\ psd = NoPsd
    /\ \E stars \in WorkerStars :
        workers = [stars |-> stars, of |-> [w \in 1 .. NWorkers |-> NoWorker]]

\* a stacking buffer that the workers would share: the buffer of worker 1
WorkerOneBuffer(ws, w) == ws.of[1].buffer
\* the stacking buffer of worker w, a local of its call of Field::intensity
WorkerBuffer(ws, w) == ws.of[w].buffer
\* the DFT engines of worker w, owned by the observing mode of its field
WorkerDfts(ws, w) == ws.of[w].dfts
WorkerFrame ==
    UNCHANGED <<pc, seeing, n_glao, call, field, samp, engine, buffer, k, last, image,
                abort, trace, zp, psd>>
\* Field::new in the closure of worker w, reading the shared collection
WorkerNew(w) ==
    /\ workers.of[w].pc = "spawned"
    /\ \E f \in WorkerFields(workers.stars) :
        workers' = [workers EXCEPT !.of[w].field = f, !.of[w].pc = "ready"]
    /\ WorkerFrame
\* Field::intensity of worker w up to the star loop
WorkerStart(w) ==
    /\ workers.of[w].pc = "ready"
    /\ \E f \in {workers.of[w].field} :
       \E s \in {Sampling(f)} :
       \E init \in {InitFft(NoEngine, f.mode, f.seeing, s.n_dft, f.observer.resolution)} :
        workers' =
            IF init.abort # ""
            THEN [workers EXCEPT !.of[w].pc = "aborted", !.of[w].abort = init.abort]
            ELSE [workers EXCEPT
                    !.of[w].pc = "stars", !.of[w].samp = s,
                    !.of[w].engine = init.engine, !.of[w].dfts = Dfts(s.n_dft),
                    !.of[w].buffer = FZeros(s.intensity_sampling * s.intensity_sampling)]
    /\ WorkerFrame
\* one iteration of the star loop of worker w
WorkerStar(w) ==
    /\ workers.of[w].pc = "stars"
    /\ workers.of[w].k < Len(workers.of[w].field.objects)
    /\ \E me \in {workers.of[w]} :
       \E star \in {me.field.objects[me.k + 1]} :
        IF ~InsideBox(star, RAdd(FieldOfViewGet(me.field),
                                 RMul(Resolution(me.field), <<2, 1>>)))
        THEN workers' = [workers EXCEPT !.of[w].k = @ + 1]
        ELSE \E o \in {CarriedStar(me.field, me.samp, me.engine,
                                    WorkerDfts(workers, w), star)} :
                workers' = [workers EXCEPT
                    !.of[w].k = @ + 1,
                    !.of[w].dfts = o.dfts,
                    !.of[w].buffer = ShiftAndAdd(WorkerBuffer(workers, w), o.x0, o.y0,
                                                 me.samp.intensity_sampling, o.tile)]
    /\ WorkerFrame
\* the end of Field::intensity of worker w
WorkerFinish(w) ==
    /\ workers.of[w].pc = "stars"
    /\ workers.of[w].k = Len(workers.of[w].field.objects)
    /\ \E me \in {workers.of[w]} :
        workers' = [workers EXCEPT
            !.of[w].pc = "done",
            !.of[w].image = Output(me.field, me.samp, WorkerBuffer(workers, w))]
    /\ WorkerFrame
WorkersNext ==
    \E w \in 1 .. NWorkers :
        \/ WorkerNew(w)
        \/ WorkerStart(w)
        \/ WorkerStar(w)
        \/ WorkerFinish(w)
WorkersSpec == WorkersInit /\ [][WorkersNext]_vars

(* Telescope::inside_pupil on its own. *)

\* pupil coordinates, in mm, from -20 to 20 in steps of 5
PupilPoints == {RInt(5 * t) : t \in -4 .. 4}
InsidePupilCall ==
    /\ \E obsc \in Obscurations, x \in PupilPoints, y \in PupilPoints :
        \E obs \in {[diameter |-> Diameter, resolution |-> DefaultResolution,
                      obscuration |-> obsc]} :
            call' = [op |-> "inside_pupil", arg |-> [observer |-> obs, x |-> x, y |-> y],
                     ret |-> InsidePupil(obs, x, y)]
    /\ UNCHANGED units
    /\ UNCHANGED <<pc, seeing, n_glao, field, samp, engine, buffer, k, last, image,
                   abort, trace>>
PupilSpec == Init /\ [][InsidePupilCall]_vars

(* Star::inside_box on its own. *)

\* star coordinates: multiples of the V Nyquist angle up to four of them
BoxCoordinates == {RMul(RInt(t), NyquistV) : t \in -4 .. 4}
\* padded widths: a field of view of 4 and of 2 pixels plus 2 pixels
BoxWidths == {RMul(RInt(6), NyquistV), RMul(RInt(4), NyquistV)}
InsideBoxCall ==
    /\ \E x \in BoxCoordinates, y \in BoxCoordinates, width \in BoxWidths :
        call' = [op |-> "inside_box", arg |-> [star |-> StarAt(x, y), width |-> width],
                 ret |-> InsideBox(StarAt(x, y), width)]
    /\ UNCHANGED units
    /\ UNCHANGED <<pc, seeing, n_glao, field, samp, engine, buffer, k, last, image,
                   abort, trace>>
BoxSpec == Init /\ [][InsideBoxCall]_vars

(* shift_and_add on its own, with the width of its i32 index arithmetic. *)

I32Max == 2147483647
I32Min == (-2147483647) - 1
\* i0 + i of two i32 leaves the i32 range
I32AddOverflows(a, b) ==
    \/ b > 0 /\ a > I32Max - b
    \/ b < 0 /\ a < I32Min - b
\* i0 + i as the release build computes it: two's complement wrap-around
I32WrappingAdd(a, b) ==
    IF b > 0 /\ a > I32Max - b THEN (a + I32Min) + (b + I32Min)
    ELSE IF b < 0 /\ a < I32Min - b THEN (a - I32Min) + (b - I32Min)
    ELSE a + b
\* the loop of shift_and_add run by a build that panics on overflow ("debug")
\* or wraps ("release"): the buffer left, the flat indices touched, whether
\* an addition overflowed and whether the call panicked
ShiftAndAddI32(buf, i0, j0, n, intensity, build) ==
    LET rows == {i \in 0 .. n - 1 : I32WrappingAdd(i0, i) \in 0 .. n - 1}
        cols == {j \in 0 .. n - 1 : I32WrappingAdd(j0, j) \in 0 .. n - 1}
        overflows ==
            \/ \E i \in 0 .. n - 1 : I32AddOverflows(i0, i)
            \/ rows # {} /\ \E j \in 0 .. n - 1 : I32AddOverflows(j0, j)
        touched == {I32WrappingAdd(i0, i) * n + I32WrappingAdd(j0, j) :
                        i \in rows, j \in cols}
        from(kk) == CHOOSE c \in rows \X cols :
                        I32WrappingAdd(i0, c[1]) * n + I32WrappingAdd(j0, c[2]) = kk
    IN  [overflows |-> overflows,
         panics |-> (build = "debug" /\ overflows) \/ ~(touched \subseteq DOMAIN buf),
         touched |-> touched,
         buffer |-> [kk \in DOMAIN buf |->
                        IF kk \in touched
                        THEN FAdd(buf[kk], intensity[from(kk)[1] * n + from(kk)[2]])
                        ELSE buf[kk]]]
\* offsets: around zero and at both ends of the i32 range
MaxOffset == 2
ShiftOffsets == (-MaxOffset .. MaxOffset) \cup {I32Max - 1, I32Max, I32Min, I32Min + 1}
MaxTileSide == 3
Builds == {"debug", "release"}
ShiftTile(n) == [c \in 0 .. n * n - 1 |-> Fin(SRat(RInt(c + 1)))]
ShiftBuffer(n) == [c \in 0 .. n * n - 1 |-> Fin(SRat(RInt(10 * (c + 1))))]
ShiftAndAddCall ==
    /\ \E n \in 1 .. MaxTileSide, i0 \in ShiftOffsets, j0 \in ShiftOffsets, build \in Builds :
        call' = [op |-> "shift_and_add",
                 arg |-> [buffer |-> ShiftBuffer(n), x0 |-> i0, y0 |-> j0, n |-> n,
                          intensity |-> ShiftTile(n), build |-> build],
                 ret |-> ShiftAndAddI32(ShiftBuffer(n), i0, j0, n, ShiftTile(n), build)]
    /\ UNCHANGED units
    /\ UNCHANGED <<pc, seeing, n_glao, field, samp, engine, buffer, k, last, image,
                   abort, trace>>
ShiftSpec == Init /\ [][ShiftAndAddCall]_vars

(* The star offsets of Field::intensity on their own. *)

\* star coordinates: quarters of the V Nyquist angle
MaxQuarters == 6
OffsetCoordinates == {RMul(Rat(t, 4), NyquistV) : t \in -MaxQuarters .. MaxQuarters}
OffsetPixelScales ==
    {Nyquist(1), NyquistFraction(2), NyquistFraction(3)}
OffsetField(ps) ==
    SamplingField("field", "DiffractionLimited", <<40, 1>>, DefaultResolution, ps,
                  FovPixelScale(4))
StarOffsetsCall ==
    /\ \E ps \in OffsetPixelScales, x \in OffsetCoordinates, y \in OffsetCoordinates :
        \E f \in {OffsetField(ps)} :
            /\ InsideBox(StarAt(x, y),
                         RAdd(FieldOfViewGet(f), RMul(Resolution(f), <<2, 1>>)))
            /\ call' = [op |-> "offsets",
                        arg |-> [field |-> f, star |-> StarAt(x, y)],
                        ret |-> StarShift(f, Sampling(f), StarAt(x, y))]
    /\ UNCHANGED units
    /\ UNCHANGED <<pc, seeing, n_glao, field, samp, engine, buffer, k, last, image,
                   abort, trace>>
OffsetSpec == Init /\ [][StarOffsetsCall]_vars

(* PixelScale::to_nyquist_clamped_ratio on its own. *)

RatioPixelScales ==
    {Nyquist(n) : n \in 1 .. 3} \cup {NyquistFraction(n) : n \in 1 .. 3}
    \cup {NyquistAt(n, band) : n \in 1 .. 3, band \in Bands}
    \cup {NyquistFractionAt(n, band) : n \in 1 .. 3, band \in Bands}
    \cup {PixelSkyAngle(RMul(f, NyquistV)) : f \in {<<1, 2>>, R1, <<3, 2>>, <<2, 1>>}}
\* the Nyquist scale 0.5 * wavelength / diameter
NyquistScale(obs, phot) == RDiv(RMul(<<1, 2>>, phot.wavelength), obs.diameter)
\* a field's pixel scale resolved by get and turned into a ratio
NyquistRatio ==
    /\ \E ps \in RatioPixelScales, band \in Bands :
        \E obs \in {[diameter |-> Diameter, resolution |-> DefaultResolution,
                      obscuration |-> R0]} :
            call' = [op |-> "to_nyquist_clamped_ratio",
                     arg |-> [pixel_scale |-> ps, band |-> band],
                     scale |-> PixelScaleGet(ps, obs, PhotometryFrom(band)),
                     nyquist |-> NyquistScale(obs, PhotometryFrom(band)),
                     ret |-> ToNyquistClampedRatio(ps, obs, PhotometryFrom(band))]
    /\ UNCHANGED units
    /\ UNCHANGED <<pc, seeing, n_glao, field, samp, engine, buffer, k, last, image,
                   abort, trace>>
NyquistRatioSpec == Init /\ [][NyquistRatio]_vars

(* The working grid of Field::intensity on its own: the pixel scale is
   resolved at its own band when it names one, the field keeps its band. *)

\* zero_padding of a side x side pupil into a DFT of length n_dft writes two
\* samples to one cell
PupilWraps(side, n_dft) ==
    /\ side # n_dft
    /\ \E c, d \in 0 .. side * side - 1 :
        /\ c # d
        /\ PadCell(c \div side, c % side, side, n_dft)
                = PadCell(d \div side, d % side, side, n_dft)
WorkingGrid ==
    /\ \E ps \in RatioPixelScales, band \in Bands :
        \E f \in {[OffsetField(ps) EXCEPT !.photometry = PhotometryFrom(band)]} :
            \E s \in {Sampling(f)} :
                call' = [op |-> "working_grid",
                         arg |-> [pixel_scale |-> ps, band |-> band],
                         step |-> RDiv(Resolution(f), RInt(s.b)),
                         nyquist |-> NyquistScale(f.observer, f.photometry),
                         diameter |-> f.observer.diameter,
                         pupil_size |-> s.pupil_size,
                         n_dft |-> s.n_dft,
                         side |-> PupilSide(f.observer),
                         wraps |-> PupilWraps(PupilSide(f.observer), s.n_dft)]
    /\ UNCHANGED units
    /\ UNCHANGED <<pc, seeing, n_glao, field, samp, engine, buffer, k, last, image,
                   abort, trace>>
GridSpec == Init /\ [][WorkingGrid]_vars

(* TransferFunction::fitting_cutoff_frequency on its own.  The phase
   spectrum it integrates, optust::phase::spectrum, is a von Karman power
   spectrum: positive at every frequency, falling with the frequency and
   with the Fried parameter, rising with the outer scale.  The number of
   samples, 8192 in the code, is scaled down. *)

MaxCutoffSamples == 7
RECURSIVE HalfPower(_)
HalfPower(c) == IF c = 0 THEN R1 ELSE RMul(<<1, 2>>, HalfPower(c - 1))
\* f * spectrum(f, r0, L0) * 2 * pi * df at sample c of the frequency axis
SpectrumTerm(c, fried_parameter, outer_scale) ==
    IF c = 0 THEN R0
    ELSE RMul(RDiv(HalfPower(c), fried_parameter),
              RDiv(outer_scale, RAdd(outer_scale, R1)))
\* the sum over the samples from i to n - 1
RECURSIVE TailVariance(_, _, _, _)
TailVariance(i, n, fried_parameter, outer_scale) ==
    IF i >= n THEN R0
    ELSE RAdd(SpectrumTerm(i, fried_parameter, outer_scale),
              TailVariance(i + 1, n, fried_parameter, outer_scale))
\* the loop over i: the first sample whose tail sum is at most var_lim stores
\* i * df, with df = 1 / (delta * (n - 1)) and delta = 1e-2; without one the
\* cutoff keeps the 0 of TransferFunction::new
RECURSIVE CutoffSearch(_, _, _, _, _)
CutoffSearch(i, n, var_lim, fried_parameter, outer_scale) ==
    IF i >= n THEN R0
    ELSE IF RLe(TailVariance(i, n, fried_parameter, outer_scale), var_lim)
    THEN RDiv(RInt(100 * i), RInt(n - 1))
    ELSE CutoffSearch(i + 1, n, var_lim, fried_parameter, outer_scale)
\* fitting_cutoff_frequency for a Strehl ratio given by its square root
FittingCutoffFrequency(root, fried_parameter, outer_scale, n) ==
    CutoffSearch(0, n, RMul(<<2, 1>>, RSub(R1, root)), fried_parameter, outer_scale)
\* square roots of Strehl ratios between 0.5 and 1
StrehlRoots == {<<3, 4>>, <<4, 5>>, <<5, 6>>, <<7, 8>>, <<9, 10>>, <<19, 20>>, R1}
CutoffFriedParameters == {<<1, 2>>, R1, <<2, 1>>, <<4, 1>>}
CutoffOuterScales == {<<25, 1>>, <<50, 1>>}
FittingCutoffCall ==
    /\ \E root \in StrehlRoots, r0 \in CutoffFriedParameters,
          big_l0 \in CutoffOuterScales, n \in 3 .. MaxCutoffSamples :
        call' = [op |-> "fitting_cutoff_frequency",
                 arg |-> [root |-> root, fried_parameter |-> r0,
                          outer_scale |-> big_l0, n |-> n],
                 ret |-> FittingCutoffFrequency(root, r0, big_l0, n)]
    /\ UNCHANGED units
    /\ UNCHANGED <<pc, seeing, n_glao, field, samp, engine, buffer, k, last, image,
                   abort, trace>>
CutoffSpec == Init /\ [][FittingCutoffCall]_vars

(* The fold of AdaptiveOpticsCorrection::transfer_function on its own: the
   four loops that fill the n_otf x n_otf covariance from the n x n one. *)

\* a lag taken without the wrap to the far end of the axis
LagUnwrapped(i, kappa, n) == i * kappa
\* let ii = n - i * kappa: the index of the lag -i * kappa
NegativeLag(i, kappa, n) == n - i * kappa
\* let ii = i * kappa: the index of the lag i * kappa
PositiveLag(i, kappa, n) == i * kappa
\* one assignment cov[k] = covariance[kk] * df * df
FoldWrite(loop, i, j, row, col, ii, jj, n_otf, n) ==
    [loop |-> loop, i |-> i, j |-> j, k |-> row * n_otf + col, ii |-> ii, jj |-> jj,
     underflows |-> ii < 0 \/ jj < 0]
\* the assignments of the four loops
FoldWrites(n_otf, kappa, n) ==
    LET low == 0 .. (n_otf + 1) \div 2 - 1
        high == 1 .. n_otf \div 2
    IN  {FoldWrite(1, i, j, i, j, PositiveLag(i, kappa, n), PositiveLag(j, kappa, n),
                   n_otf, n) : i \in low, j \in low}
        \cup
        {FoldWrite(2, i, j, n_otf - i, n_otf - j, NegativeLag(i, kappa, n),
                   NegativeLag(j, kappa, n), n_otf, n) : i \in high, j \in high}
        \cup
        {FoldWrite(3, i, j, n_otf - i, j, NegativeLag(i, kappa, n),
                   PositiveLag(j, kappa, n), n_otf, n) : i \in high, j \in low}
        \cup
        {FoldWrite(4, i, j, i, n_otf - j, PositiveLag(i, kappa, n),
                   NegativeLag(j, kappa, n), n_otf, n) : i \in low, j \in high}
\* w is assigned after v
FoldLater(w, v) ==
    \/ w.loop > v.loop
    \/ w.loop = v.loop /\ w.i > v.i
    \/ w.loop = v.loop /\ w.i = v.i /\ w.j > v.j
\* the covariance cell (ii, jj) whose value cell c of cov holds after the
\* loops; <<-1, -1>> for a cell left at the zero it was allocated with
FoldSource(writes, c) ==
    IF \E w \in writes : w.k = c
    THEN LET w == CHOOSE w \in writes :
                    w.k = c /\ \A v \in writes : v.k = c => ~FoldLater(v, w)
         IN  <<w.ii, w.jj>>
    ELSE <<-1, -1>>
\* the fold, and where (cov - var).exp() is exp(0): the cells that hold the
\* value of the covariance cell cov[0] holds
Fold(n_otf, kappa) ==
    With2(LAMBDA n, writes:
        With(LAMBDA cov:
            [n |-> n, writes |-> writes, cov |-> cov,
             panics |-> \E w \in writes :
                            \/ w.underflows \/ w.ii >= n \/ w.jj >= n
                            \/ w.k < 0 \/ w.k >= n_otf * n_otf,
             ones |-> {c \in DOMAIN cov : cov[c] = cov[0]}],
            [c \in 0 .. n_otf * n_otf - 1 |-> FoldSource(writes, c)]),
        TfDftSize(kappa, n_otf), FoldWrites(n_otf, kappa, TfDftSize(kappa, n_otf)))
MaxFold == 7
MaxKappa == 10
\* kappa = ceil(d / DELTA_0): small ones, and ones that make kappa * n_otf
\* exceed the 4096 samples
FoldKappas == (1 .. MaxKappa) \cup {1000 * t : t \in 1 .. 5}
FoldCall ==
    /\ \E n_otf \in 1 .. MaxFold, kappa \in FoldKappas :
        call' = [op |-> "fold", arg |-> [n_otf |-> n_otf, kappa |-> kappa],
                 ret |-> Fold(n_otf, kappa)]
    /\ UNCHANGED units
    /\ UNCHANGED <<pc, seeing, n_glao, field, samp, engine, buffer, k, last, image,
                   abort, trace>>
FoldSpec == Init /\ [][FoldCall]_vars

(* Field::intensity called twice in a row on one Field, photon noise off:
   the observing mode enters the second call with the engines, the OTF and
   the AO transfer function the first call left. *)

\* a stacking buffer that would be kept from one call to the next
StackingBufferKept(left, intensity_sampling) == left
\* let mut buffer = vec![0f64; intensity_sampling.pow(2)], whatever the
\* buffer of the call before held
StackingBuffer(left, intensity_sampling) == FZeros(intensity_sampling * intensity_sampling)
\* self.fft = Some(ZpDft::forward(n_dft)) and self.ifft = Some(ZpDft::inverse(
\* n_dft)): init_fft drops the engines it finds
InitDfts(dfts, n_dft) == Dfts(n_dft)
TwiceStars == WorkerStars \cup {<<>>, <<StarAt(<<1000, 1>>, R0)>>}
TwiceFields ==
    {[WorkerField(impl, mode, R0, objects) EXCEPT
        !.seeing = IF mode = "AdaptiveOptics" THEN SeeingNgao ELSE @,
        !.field_of_view = fov] :
        impl \in {"field", "serial"}, mode \in Modes, objects \in TwiceStars,
        fov \in {FovPixelScale(4), FovPixelScale(2)}}
TwiceInit ==
    /\ pc = "builder"
    /\ seeing = NoSeeing
    /\ n_glao = 0
    /\ call = NoCall
    /\ field = NoField
    /\ samp = NoSamp
    /\ engine = NoEngine
    /\ buffer = EmptyArray
    /\ k = 0
    /\ last = NoLast
    /\ image = EmptyArray
    /\ abort = ""
    /\ trace = <<>>
    /\ zp = NoZp
    /\ psd = NoPsd
    /\ \E f \in TwiceFields :
        workers = [stars |-> f.objects,
                   of |-> [w \in {1} |-> [NoWorker EXCEPT !.pc = "ready", !.field = f]]]
\* the first call has returned its array: the second call of Field::intensity
\* on the same Field, up to the star loop
IntensityAgain ==
    /\ workers.of[1].pc = "done"
    /\ call.op = ""
    /\ call' = [op |-> "intensity", arg |-> workers.of[1].field,
                ret |-> workers.of[1].image]
    /\ \E me \in {workers.of[1]} :
       \E s \in {Sampling(me.field)} :
       \E init \in {IF me.field.impl = "serial"
                     THEN [abort |-> "", engine |-> me.engine]
                     ELSE InitFft(me.engine, me.field.mode, me.field.seeing, s.n_dft,
                                  me.field.observer.resolution)} :
        workers' =
            IF init.abort # ""
            THEN [workers EXCEPT !.of[1].pc = "aborted", !.of[1].abort = init.abort]
            ELSE [workers EXCEPT
                    !.of[1].pc = "stars", !.of[1].samp = s, !.of[1].k = 0,
                    !.of[1].engine = init.engine,
                    !.of[1].dfts = IF me.field.impl = "serial" THEN me.dfts
                                   ELSE InitDfts(me.dfts, s.n_dft),
                    !.of[1].buffer = StackingBuffer(me.buffer, s.intensity_sampling)]
    /\ UNCHANGED <<pc, seeing, n_glao, field, samp, engine, buffer, k, last, image,
                   abort, trace, zp, psd>>
TwiceNext ==
    \/ WorkerStart(1)
    \/ WorkerStar(1)
    \/ WorkerFinish(1)
    \/ IntensityAgain
TwiceSpec == TwiceInit /\ [][TwiceNext]_vars

(* The seeing builder on its own: any sequence of its methods. *)

\* how many methods are called on one builder
MaxCalls == 3
SbFriedParameters == {FS(<<100, 1>>), FS(<<150, 1>>)}
SbOuterScales == {FS(<<50, 1>>)}
\* cosines of the zenith angles 0, about 88.2 and about 91.8 degrees
ZenithCosines == {R1, <<1, 32>>, <<-1, 32>>}
SbCorrectedFractions ==
    {SNInf, FS(<<-1, 1>>), FS(R0), FS(<<1, 2>>), FS(<<3, 4>>), FS(R1), SNaN}

SeeingInit ==
    /\ pc = "builder"
    /\ \E r0 \in SbFriedParameters :
        /\ seeing = SbNew(r0)
        /\ call = [op |-> "new", arg |-> r0, from |-> NoSeeing, n |-> 0]
    /\ n_glao = 0
    /\ field = NoField
    /\ samp = NoSamp
    /\ engine = NoEngine
    /\ buffer = EmptyArray
    /\ k = 0
    /\ last = NoLast
    /\ image = EmptyArray
    /\ abort = ""
    /\ trace = <<>>
    /\ zp = NoZp
    /\ psd = NoPsd
    /\ workers = <<>>

\* what a method call that returns leaves behind
SbReturns(op, arg, sb) ==
    /\ seeing' = sb
    /\ call' = [op |-> op, arg |-> arg, from |-> seeing, n |-> call.n + 1]
    /\ UNCHANGED <<pc, abort>>
\* what a method call that panics leaves behind
SbPanics(op, arg, msg) ==
    /\ call' = [op |-> op, arg |-> arg, from |-> seeing, n |-> call.n + 1]
    /\ Panic(msg)
    /\ UNCHANGED seeing
SbFrame ==
    /\ pc = "builder"
    /\ call.n < MaxCalls
    /\ UNCHANGED units
    /\ UNCHANGED <<n_glao, field, samp, engine, buffer, k, last, image, trace>>

OuterScaleCall ==
    /\ SbFrame
    /\ \E l0 \in SbOuterScales : SbReturns("outer_scale", l0, SbOuterScale(seeing, l0))
ZenithAngleCall ==
    /\ SbFrame
    /\ \E c \in ZenithCosines : SbReturns("zenith_angle", c, SbZenithAngle(seeing, c))
GlaoCall ==
    /\ SbFrame
    /\ \E f \in SbCorrectedFractions :
        IF SbGlaoAccepts(f)
        THEN SbReturns("glao", f, SbGlao(seeing, f))
        ELSE SbPanics("glao", f, GlaoMessage)
WavelengthCall ==
    /\ SbFrame
    /\ \E band \in Bands \cup {"X"} :
        IF PhotometryFrom(band).known
        THEN SbReturns("wavelength", band, SbWavelength(seeing, band))
        ELSE SbPanics("wavelength", band, BandMessage)
NgaoCall ==
    /\ SbFrame
    /\ \E s \in StrehlRatios :
        IF NgaoAccepts(s)
        THEN SbReturns("ngao", s, SbNgao(seeing, s, NoStar))
        ELSE SbPanics("ngao", s, StrehlMessage)
LtaoCall ==
    /\ SbFrame
    /\ \E s \in StrehlRatios, radius \in LaserRadii :
        IF LtaoAccepts(s)
        THEN SbReturns("ltao", s, SbLtao(seeing, s, radius))
        ELSE SbPanics("ltao", s, StrehlMessage)

SeeingNext ==
    \/ OuterScaleCall
    \/ ZenithAngleCall
    \/ GlaoCall
    \/ WavelengthCall
    \/ NgaoCall
    \/ LtaoCall
SeeingSpec == SeeingInit /\ [][SeeingNext]_vars

SomeStar(star) == [some |-> TRUE, star |-> star]
AoCorrections ==
    {AdaptiveOpticsCorrectionNew(<<1, 2>>, g) :
        g \in {NoStar, SomeStar(Centre), SomeStar(StarAt(<<55, 8>>, R0))}}
AoTargets ==
    {Centre, StarAt(<<55, 8>>, R0), StarAt(R0, <<55, 16>>), StarAt(<<1000, 1>>, <<55, 8>>)}
\* indices at the ends and around the middle of the 4096-wide grid
AoIndices == {0, 2047, 2048, 2049, 4095}

TransferFunctionCell ==
    /\ \E aoc \in AoCorrections, star \in AoTargets, i \in AoIndices, j \in AoIndices :
            psd' = PsdCell(aoc, TransferFunctionNew(4, <<25, 1>>), star, i, j)
    /\ UNCHANGED <<pc, seeing, n_glao, call, field, samp, engine, buffer, k, last,
                   image, abort, trace, zp, workers>>

AoSpec == Init /\ [][TransferFunctionCell]_vars

----------------------------------------------------------------------------
(* Properties *)

Range(seq) == {seq[i] : i \in 1 .. Len(seq)}
HasNaN(a) == \E c \in DOMAIN a : a[c].nan
\* an index of a largest sample of an array of finite samples
IsPeak(a, c) == \A e \in DOMAIN a : SLe(a[e].v, a[c].v)

\* C2: with b > 1, the returned array sums to what the working buffer
\* sums to: binning adds every buffer cell into exactly one output bin
C2_BinningPreservesSum ==
    (pc = "done" /\ samp.b > 1 /\ ~HasNaN(buffer)) => FSum(image) = FSum(buffer)

\* C3: diffraction limited, a single star at the field centre, b = 1, no
\* photon noise, flux override F: the returned array sums to F and its
\* largest sample is the centre pixel
C3_FluxConservedPeakCentred ==
    (/\ pc = "done"
     /\ field.impl \in {"field", "serial"}
     /\ field.mode = "DiffractionLimited"
     /\ samp.b = 1
     /\ ~field.poisson_noise
     /\ field.flux.some
     /\ field.objects = <<Centre>>)
    => /\ FSum(image) = Fin(SRat(field.flux.v))
       /\ IsPeak(image, (samp.intensity_sampling \div 2) * samp.intensity_sampling
                        + samp.intensity_sampling \div 2)

\* C4: the returned array is square with the side n_px that Field::save
\* lays it out with, ceil(field of view / pixel scale)
C4_OutputSideIsPixelCount ==
    pc = "done" => ALen(image) = SaveNPx(field) * SaveNPx(field)

\* C5: an object with a NaN or infinite position or magnitude makes the
\* evaluation fail: the loop never gets past it, by skipping it or otherwise
C5_NonFiniteStarFails ==
    pc \in {"stars", "done"} => \A i \in 1 .. k : ~NonFinite(field.objects[i])

\* C6: with photon noise, a tile sample equal to 0 does not abort the
\* evaluation and is still 0 after the noise step, in every implementation
C6_ZeroSamplesSurviveNoise ==
    (pc \in {"stars", "done", "aborted"} /\ field # NoField /\ field.poisson_noise
        /\ last.star > 0 /\ ~last.skipped /\ ~HasNaN(last.tile))
    => /\ abort # "Poisson::new"
       /\ \A c \in DOMAIN last.noisy : FIsZero(last.tile[c]) => FIsZero(last.noisy[c])

\* C7: a star whose tile sums to exactly zero either aborts the evaluation
\* or contributes exactly zero: no NaN or Inf gets into the working buffer
C7_ZeroSumGuarded ==
    (pc \in {"stars", "done", "aborted"} /\ last.star > 0 /\ ~last.skipped
        /\ DOMAIN last.tile # {} /\ FIsZero(last.intensity_sum))
    => (pc = "aborted" \/ ~HasNaN(buffer))

\* C1: after the parity adjustment, which adds at most 1 to
\* ceil(pupil_size / pupil resolution), either intensity_sampling <= n_dft
\* or the two have the same parity
C1_ParityMatched ==
    samp # NoSamp =>
        /\ \/ samp.intensity_sampling <= samp.n_dft
           \/ samp.intensity_sampling % 2 = samp.n_dft % 2
        /\ samp.n_dft - DftSampling(samp.pupil_size, field.observer.resolution)
                \in {0, 1}
\* the adjustment has fired: n_dft is one more than the ceiling
C1_Adjusted ==
    /\ pc = "stars"
    /\ samp.n_dft = DftSampling(samp.pupil_size, field.observer.resolution) + 1
    /\ samp.intensity_sampling > samp.n_dft

\* C8: ngao and ltao abort exactly when the Strehl ratio is below 1/2 and
\* otherwise store the correction; no stored correction, in a builder or in a
\* field, has a Strehl ratio below 1/2
C8_StrehlGuarded ==
    /\ call.op \in {"ngao", "ltao"} =>
        /\ (pc = "aborted" /\ abort = StrehlMessage) <=> RLt(call.arg, <<1, 2>>)
        /\ ~RLt(call.arg, <<1, 2>>) =>
                /\ seeing.adaptive_optics.some
                /\ seeing.adaptive_optics.kind = call.op
                /\ seeing.adaptive_optics.strehl_ratio = call.arg
    /\ seeing.adaptive_optics.some =>
            ~RLt(seeing.adaptive_optics.strehl_ratio, <<1, 2>>)
    /\ (field.built /\ field.seeing.adaptive_optics.some) =>
            ~RLt(field.seeing.adaptive_optics.strehl_ratio, <<1, 2>>)
\* ltao called with a Strehl ratio of 0.49 has aborted
C8_LtaoRejected ==
    /\ call = [op |-> "ltao", arg |-> <<49, 100>>]
    /\ pc = "aborted"
    /\ abort = StrehlMessage

ConfigErrors == {BandMessage, StrehlMessage, GlaoMessage, SamplingMessage}
\* C9 as stated: every configuration error is raised at construction, before
\* Field::intensity has computed a sampling ratio or allocated a DFT engine
C9_ConfigErrorsAtConstruction ==
    abort \in ConfigErrors =>
        /\ pc = "aborted"
        /\ trace = <<>>
        /\ samp = NoSamp
        /\ engine = NoEngine
\* C9, amended: every configuration error is fatal and is raised before any
\* star's tile is computed or stacked; a Strehl ratio, a GLAO fraction and
\* the band of the field are rejected before a field exists, while a band
\* named by a pixel scale or a field of view and the adaptive-optics pupil
\* sampling are rejected inside Field::intensity
C9_ConfigErrorsBeforeAnyTile ==
    abort \in ConfigErrors =>
        /\ pc = "aborted"
        /\ "tile" \notin Range(trace)
        /\ last.tile = EmptyArray
        /\ image = EmptyArray
        /\ \A c \in DOMAIN buffer : FIsZero(buffer[c])
        /\ abort \in {StrehlMessage, GlaoMessage} => (~field.built /\ trace = <<>>)
        /\ abort = SamplingMessage =>
                (field.built /\ "n_dft" \in Range(trace) /\ "fft" \in Range(trace))
        /\ (abort = BandMessage /\ field.built) => "nyquist_ratio" \in Range(trace)
\* the pupil sampling was rejected after the DFT engines were allocated
C9_SamplingRejectedLate ==
    /\ abort = SamplingMessage
    /\ pc = "aborted"
    /\ "fft" \in Range(trace)

\* C10: TransferFunction::new aborts exactly when d < 2.5 cm; otherwise
\* kappa is the least integer >= d / 2.5 cm, at least 1, and the DFT has
\* the larger of kappa * n_otf and 4096 samples a side
C10_TransferFunctionGuard ==
    (/\ pc \in {"stars", "aborted"}
     /\ field.impl = "field"
     /\ field.mode = "AdaptiveOptics"
     /\ field.seeing.adaptive_optics.some
     /\ abort # BandMessage)
    => /\ (pc = "aborted" /\ abort = SamplingMessage)
            <=> RLt(field.observer.resolution, <<25, 1>>)
       /\ pc = "stars" =>
            /\ engine.tf.some
            /\ engine.tf.n_otf = samp.n_dft
            /\ engine.tf.kappa >= 1
            /\ RLe(RDiv(field.observer.resolution, <<25, 1>>), RInt(engine.tf.kappa))
            /\ RLt(RInt(engine.tf.kappa - 1), RDiv(field.observer.resolution, <<25, 1>>))
            /\ engine.tf.n >= 4096
            /\ engine.tf.n >= engine.tf.kappa * engine.tf.n_otf
            /\ engine.tf.n \in {4096, engine.tf.kappa * engine.tf.n_otf}
\* a sampling of exactly 2.5 cm is accepted with kappa = 1, on an OTF grid
\* wider than 4096
C10_DefaultSamplingAccepted ==
    /\ pc = "stars"
    /\ field.impl = "field"
    /\ field.mode = "AdaptiveOptics"
    /\ field.observer.resolution = <<25, 1>>
    /\ engine.tf.some
    /\ engine.tf.kappa = 1
    /\ engine.tf.n = samp.n_dft
    /\ engine.tf.n > 4096

\* C11: with no guide star, the offset between target and guide star that
\* transfer_function works with is zero for every target, and the
\* anisoplanatism term is 0 in every cell of the spectrum
C11_NoGuideStarNoAnisoplanatism ==
    (psd.called /\ ~psd.aoc.guide_star.some) =>
        /\ psd.delta = <<R0, R0>>
        /\ psd.anisoplanatism_zero

\* C12: on a builder started from a positive Fried parameter, whatever
\* methods were called, the Fried parameter is finite and positive
C12_FriedParameterFinitePositive ==
    (pc = "builder" /\ seeing.some /\ "n" \in DOMAIN call) =>
        /\ IsFinite(seeing.fried_parameter)
        /\ RLt(R0, seeing.fried_parameter.v)

C14_RatioIsCeilingOfScale ==
    call.op = "to_nyquist_clamped_ratio" =>
        /\ call.ret >= 1
        /\ call.ret = RCeil(RDiv(call.scale, call.nyquist))
        /\ call.ret = 1 <=> ~RLt(call.nyquist, call.scale)

\* C17: after any sequence of the public methods on an engine made by
\* forward(len) or inverse(len), the buffer holds exactly len() * len()
\* samples
C17_BufferHoldsLenSquared ==
    (zp.made /\ pc # "aborted") => ALen(zp.e.buf) = zp.e.len * zp.e.len

\* the engine before the call that is t calls back (0: the last call)
ZpBefore(t) == zp.hist[Len(zp.hist) - t]
ZpCalled(t) == zp.ops[Len(zp.ops) - t]
\* C18: shift moves sample (i, j) to ((i + len/2) mod len, (j + len/2) mod len),
\* and for every len and new_len, after shift then resize(new_len), the sample
\* that was at flat index 0 before the shift is at row new_len/2, column
\* new_len/2
C18_ShiftResizeKeepsCentre ==
    /\ (/\ zp.made /\ pc # "aborted" /\ Len(zp.ops) >= 1
        /\ ZpCalled(0).op = "shift"
        /\ ALen(ZpBefore(0).buf) = zp.e.len * zp.e.len) =>
            \A i, j \in 0 .. zp.e.len - 1 :
                zp.e.buf[((i + zp.e.len \div 2) % zp.e.len) * zp.e.len
                         + ((j + zp.e.len \div 2) % zp.e.len)]
                    = ZpBefore(0).buf[i * zp.e.len + j]
    /\ (/\ zp.made /\ pc # "aborted" /\ Len(zp.ops) >= 2
        /\ ZpCalled(1).op = "shift" /\ ZpCalled(0).op = "resize"
        /\ ALen(ZpBefore(1).buf) = zp.e.len * zp.e.len) =>
            zp.e.buf[(ZpCalled(0).arg \div 2) * ZpCalled(0).arg + ZpCalled(0).arg \div 2]
                = ZpBefore(1).buf[0]

\* C19: zero_padding panics on every input whose length is not a perfect
\* square, with the buffer as it was, and does not panic on any input of
\* n * n samples
C19_PanicsExactlyOnNonSquare ==
    (zp.made /\ Len(zp.ops) >= 1 /\ ZpCalled(0).op = "zero_padding") =>
        IF ZpIsSquare(ZpCalled(0).arg)
        THEN pc # "aborted"
        ELSE pc = "aborted" /\ abort = SquareMessage /\ zp.e = ZpBefore(0)

\* the cell the loops write at step (i, j)
OtfCell(i, j, n_otf) == OtfStorageIndex(i, n_otf) * n_otf + OtfStorageIndex(j, n_otf)
\* C20: the transfer function at separation 0 is exactly 1; it is stored at
\* flat index 0 of the n_otf x n_otf array; every cell is assigned by exactly
\* one step (i, j) of the loops, with the value for the offsets
\* i - n_otf/2 and j - n_otf/2
C20_OriginIsOneEveryCellOnce ==
    call.op = "atmosphere_transfer_function" =>
        LET a == call.arg
            n == a.n_otf
            One == Cx(SRat(R1), S0)
            Value(i, j) ==
                Cx(SRat(PhaseTransferFunction(
                        RMul(RMul(a.d, a.d),
                             RInt((i - n \div 2) * (i - n \div 2)
                                  + (j - n \div 2) * (j - n \div 2))),
                        a.r0)), S0)
        IN  /\ Cx(SRat(PhaseTransferFunction(R0, a.r0)), S0) = One
            /\ DOMAIN call.ret = 0 .. n * n - 1
            /\ call.ret[0] = One
            /\ OtfCell(n \div 2, n \div 2, n) = 0
            /\ \A kk \in 0 .. n * n - 1 :
                    Cardinality({ij \in (0 .. n - 1) \X (0 .. n - 1) :
                                    OtfCell(ij[1], ij[2], n) = kk}) = 1
            /\ \A i, j \in 0 .. n - 1 : call.ret[OtfCell(i, j, n)] = Value(i, j)
\* a grid of odd side above 1 has been filled, with cells away from the
\* origin below 1
C20_GridFilled ==
    /\ call.op = "atmosphere_transfer_function"
    /\ call.arg.n_otf = 5
    /\ call.ret[0] = Cx(SRat(R1), S0)
    /\ call.ret[1] # call.ret[0]

\* C15: with photon noise off, Field::intensity returns the same array for
\* every ordering of the star collection: a star's tile does not depend on
\* the stars processed before it, and the accumulation commutes
C15_OrderOfStarsIrrelevant ==
    (pc = "done" /\ ~field.poisson_noise) =>
        \A objects \in Orderings(field.objects) :
            image = IntensityOf(field, samp, engine, objects)
\* an evaluation without noise has stacked two different stars
C15_TwoStarsStacked ==
    /\ pc = "done" /\ ~field.poisson_noise
    /\ Len(field.objects) = 2
    /\ field.objects[1] # field.objects[2]
    /\ \A t \in 1 .. 2 :
            InsideBox(field.objects[t],
                      RAdd(FieldOfViewGet(field), RMul(Resolution(field), <<2, 1>>)))
    /\ \E c \in DOMAIN image : ~image[c].nan /\ ~FIsZero(image[c])

\* the output of evaluating the field f alone
Alone(f) ==
    With(LAMBDA sa:
        IntensityOf(f, sa,
                    InitFft(NoEngine, f.mode, f.seeing, sa.n_dft,
                            f.observer.resolution).engine,
                    f.objects),
        Sampling(f))
\* C16: when whole Field evaluations run on concurrent workers, under every
\* interleaving the output of each worker is the output of evaluating its
\* field alone, and the shared star collection is as every field read it
C16_WorkersDoNotInterfere ==
    \A w \in DOMAIN workers.of :
        /\ workers.of[w].pc # "spawned" => workers.of[w].field.objects = workers.stars
        /\ workers.of[w].pc = "done" => workers.of[w].image = Alone(workers.of[w].field)
\* a worker has finished while another, evaluating a different field, is in
\* the middle of its star loop
C16_FinishedBesideRunning ==
    \E w, v \in DOMAIN workers.of :
        /\ workers.of[w].pc = "done"
        /\ workers.of[v].pc = "stars" /\ workers.of[v].k = 1
        /\ Len(workers.stars) = 2
        /\ workers.of[v].field # workers.of[w].field

\* C21: for a telescope whose central obscuration has diameter o, a point at
\* distance r from the pupil centre is inside the pupil iff
\* o/2 <= r <= diameter/2
C21_InsideBetweenTheTwoRadii ==
    call.op = "inside_pupil" =>
        LET a == call.arg
            r2 == RAdd(RMul(a.x, a.x), RMul(a.y, a.y))
            inner == RMul(a.observer.obscuration, <<1, 2>>)
            outer == RMul(a.observer.diameter, <<1, 2>>)
        IN  call.ret <=> (RLe(RMul(inner, inner), r2) /\ RLe(r2, RMul(outer, outer)))

\* how many times a stage occurs in a trace, and where it first occurs
Occurrences(tr, stage) == Cardinality({t \in DOMAIN tr : tr[t] = stage})
FirstOf(tr, stage) == CHOOSE t \in DOMAIN tr : tr[t] = stage /\ \A u \in 1 .. t - 1 : tr[u] # stage
\* C22: in every Field::intensity evaluation init_fft runs before the first
\* per-star intensity call and exactly once for the whole evaluation,
\* whatever the number of stars; an intensity call on a state init_fft never
\* ran on returns None in the three modes
C22_InitFftOnceBeforeTiles ==
    /\ (pc \in {"stars", "done"} /\ Occurrences(trace, "tile") > 0) =>
            /\ Occurrences(trace, "fft") > 0
            /\ FirstOf(trace, "fft") < FirstOf(trace, "tile")
    /\ pc \in {"stars", "done"} => Occurrences(trace, "fft") <= 1
    /\ pc = "done" => Occurrences(trace, "fft") = 1 /\ engine.n_init = 1
    /\ \A mode \in Modes : IntensityIsNone(mode, seeing, NoEngine)

\* C23: with h half the padded width, a star is skipped iff |x| > h or
\* |y| > h, both axes alike and a star on the padded boundary kept
C23_SkippedIffBeyondPaddedBox ==
    call.op = "inside_box" =>
        LET h == RMul(call.arg.width, <<1, 2>>)
            x == call.arg.star.x.v
            y == call.arg.star.y.v
        IN  ~call.ret <=> (RLt(h, RAbs(x)) \/ RLt(h, RAbs(y)))

\* C24: for every tile, buffer and integer offset, shift_and_add touches
\* only cells of [0, n*n), never overflows its index arithmetic, and adds
\* tile(ii - i0, jj - j0) to buffer cell (ii, jj) exactly when that tile
\* cell exists
C24_ShiftAndAddInBoundsNoOverflow ==
    call.op = "shift_and_add" =>
        LET a == call.arg
            n == a.n
            row(ii) == {i \in 0 .. n - 1 : ~I32AddOverflows(a.x0, i) /\ a.x0 + i = ii}
            col(jj) == {j \in 0 .. n - 1 : ~I32AddOverflows(a.y0, j) /\ a.y0 + j = jj}
        IN  /\ ~call.ret.overflows
            /\ ~call.ret.panics
            /\ call.ret.touched \subseteq 0 .. n * n - 1
            /\ \A ii \in 0 .. n - 1, jj \in 0 .. n - 1 :
                    call.ret.buffer[ii * n + jj] =
                        IF row(ii) # {} /\ col(jj) # {}
                        THEN FAdd(a.buffer[ii * n + jj],
                                  a.intensity[(CHOOSE i \in row(ii) : TRUE) * n
                                              + (CHOOSE j \in col(jj) : TRUE)])
                        ELSE a.buffer[ii * n + jj]
\* the same for offsets whose additions stay inside the i32 range
C24_InRangeOffsetsShifted ==
    (call.op = "shift_and_add" /\ call.arg.x0 \in -MaxOffset .. MaxOffset
        /\ call.arg.y0 \in -MaxOffset .. MaxOffset) =>
            /\ ~call.ret.overflows /\ ~call.ret.panics
            /\ call.ret.buffer = ShiftAndAdd(call.arg.buffer, call.arg.x0, call.arg.y0,
                                              call.arg.n, call.arg.intensity)

\* C25: zero_padding of an input of side n < len into a reset engine stores
\* sample (i, j) at ((i - n/2) mod len, (j - n/2) mod len), distinct samples
\* in distinct cells and the centre sample (n/2, n/2) at flat index 0; for
\* n = len the buffer becomes the input, sample (i, j) staying at (i, j)
C25_ZeroPaddingCentresInput ==
    (/\ zp.made /\ pc # "aborted" /\ Len(zp.ops) >= 2
     /\ ZpCalled(1).op = "reset" /\ ZpCalled(0).op = "zero_padding") =>
        LET input == ZpCalled(0).arg
            n == ISqrt(ALen(input))
            len == zp.e.len
            cell(i, j) == ((i - n \div 2) % len) * len + ((j - n \div 2) % len)
        IN  /\ n < len =>
                /\ \A i, j \in 0 .. n - 1 : zp.e.buf[cell(i, j)] = input[i * n + j]
                /\ \A i, j, ii, jj \in 0 .. n - 1 :
                        cell(i, j) = cell(ii, jj) => i = ii /\ j = jj
                /\ zp.e.buf[0] = input[(n \div 2) * n + n \div 2]
                /\ ALen(zp.e.buf) = len * len
            /\ n = len =>
                /\ zp.e.buf = input
                /\ \A i, j \in 0 .. n - 1 : zp.e.buf[i * len + j] = input[i * n + j]
\* a 3 x 3 input has been padded into a reset engine of length 4, and a full
\* size input into another
C25_PaddedIntoResetEngine ==
    /\ zp.made /\ pc # "aborted" /\ Len(zp.ops) >= 2
    /\ ZpCalled(1).op = "reset" /\ ZpCalled(0).op = "zero_padding"
    /\ ALen(ZpCalled(0).arg) = 9 /\ zp.e.len = 4
    /\ zp.e.buf[15] = ZpCalled(0).arg[0]

\* C26: for an accepted star at (x, y) and working-grid step alpha, the
\* offsets are row x0 = -round(y / alpha) and column y0 = round(x / alpha),
\* and the residuals satisfy x0*alpha + fr_x0 = -y, y0*alpha + fr_y0 = x,
\* |fr_x0| <= alpha/2 and |fr_y0| <= alpha/2
C26_OffsetsAndResiduals ==
    call.op = "offsets" =>
        LET f == call.arg.field
            alpha == RDiv(Resolution(f), RInt(Sampling(f).b))
            x == call.arg.star.x.v
            y == call.arg.star.y.v
            r == call.ret
        IN  /\ r.x0 = -RRound(RDiv(y, alpha))
            /\ r.y0 = RRound(RDiv(x, alpha))
            /\ RAdd(RMul(RInt(r.x0), alpha), r.fr_x0) = RNeg(y)
            /\ RAdd(RMul(RInt(r.y0), alpha), r.fr_y0) = x
            /\ RLe(RAbs(r.fr_x0), RMul(alpha, <<1, 2>>))
            /\ RLe(RAbs(r.fr_y0), RMul(alpha, <<1, 2>>))
\* an accepted star two rows up and one column right of the centre, its
\* column residual exactly half a step and its row residual zero
C26_StarOffTheCentre ==
    /\ call.op = "offsets"
    /\ call.ret.x0 = -2 /\ call.ret.y0 = 1
    /\ RAbs(call.ret.fr_y0) =
            RMul(RDiv(Resolution(call.arg.field), RInt(Sampling(call.arg.field).b)),
                 <<1, 2>>)
    /\ call.ret.fr_x0 = R0

\* C27: for every pixel-scale variant, NyquistAt and NyquistFractionAt at a
\* band other than the field's included, the working-grid step never exceeds
\* the field's Nyquist step, so pupil_size >= 2 * D, n_dft is at least the
\* pupil grid side, and zero_padding of the pupil wraps no two samples onto
\* one DFT cell
C27_WorkingGridAtLeastNyquist ==
    call.op = "working_grid" =>
        /\ RLe(call.step, call.nyquist)
        /\ RLe(RMul(<<2, 1>>, call.diameter), call.pupil_size)
        /\ call.n_dft >= call.side
        /\ ~call.wraps

\* C28: for a Strehl ratio S in [0.5, 1] and positive r0 and L0, the stored
\* cutoff is the smallest sample frequency i*df whose tail sum is at most
\* 2(1 - sqrt(S)); the search always reaches such a sample, and a larger S
\* never gives a smaller cutoff
C28_CutoffIsFirstCrossing ==
    call.op = "fitting_cutoff_frequency" =>
        LET a == call.arg
            var_lim == RMul(<<2, 1>>, RSub(R1, a.root))
            crossing == {i \in 0 .. a.n - 1 :
                            RLe(TailVariance(i, a.n, a.fried_parameter, a.outer_scale),
                                var_lim)}
        IN  /\ crossing # {}
            /\ \A i \in crossing :
                    (\A j \in crossing : i <= j) =>
                        call.ret = RDiv(RInt(100 * i), RInt(a.n - 1))
            /\ \A root \in StrehlRoots :
                    RLe(a.root, root) =>
                        RLe(call.ret, FittingCutoffFrequency(root, a.fried_parameter,
                                                             a.outer_scale, a.n))
\* the same when a crossing exists
C28_CutoffWhenCrossed ==
    call.op = "fitting_cutoff_frequency" =>
        LET a == call.arg
            var_lim == RMul(<<2, 1>>, RSub(R1, a.root))
            crossing == {i \in 0 .. a.n - 1 :
                            RLe(TailVariance(i, a.n, a.fried_parameter, a.outer_scale),
                                var_lim)}
        IN  \A i \in crossing :
                (\A j \in crossing : i <= j) =>
                    call.ret = RDiv(RInt(100 * i), RInt(a.n - 1))

\* C29: for n_otf >= 1, kappa >= 1 and n = max(kappa * n_otf, 4096), the four
\* fold loops assign every cell of the n_otf x n_otf covariance exactly once,
\* each from an in-bounds cell of the n x n covariance at lag (+-i*kappa,
\* +-j*kappa) modulo n, and cell 0 receives the zero-lag value, so the OTF is
\* exactly 1 at index 0
C29_FoldAssignsEveryCellOnce ==
    call.op = "fold" =>
        LET n_otf == call.arg.n_otf
            kappa == call.arg.kappa
            n == IF kappa * n_otf > 4096 THEN kappa * n_otf ELSE 4096
            r == call.ret
            \* the lag, in cells of cov, that row or column t stands for
            lag(t) == IF t < (n_otf + 1) \div 2 THEN t ELSE t - n_otf
        IN  /\ r.n = n
            /\ ~r.panics
            /\ \A c \in 0 .. n_otf * n_otf - 1 :
                    Cardinality({w \in r.writes : w.k = c}) = 1
            /\ \A w \in r.writes :
                    /\ w.k \in 0 .. n_otf * n_otf - 1
                    /\ w.ii \in 0 .. n - 1 /\ w.jj \in 0 .. n - 1
            /\ \A row, col \in 0 .. n_otf - 1 :
                    r.cov[row * n_otf + col]
                        = <<(lag(row) * kappa) % n, (lag(col) * kappa) % n>>
            /\ r.cov[0] = <<0, 0>>
            /\ 0 \in r.ones
\* a fold of an odd grid onto a transform wider than 4096 samples has filled
\* the last cell from the lag (-kappa, -kappa)
C29_FoldedWide ==
    /\ call.op = "fold"
    /\ call.arg.n_otf = 5 /\ call.arg.kappa = 1000
    /\ call.ret.n = 5000
    /\ call.ret.cov[24] = <<4000, 4000>>
    /\ Cardinality(call.ret.writes) = 25

\* C30: with photon noise off, two calls of Field::intensity in a row on the
\* same Field return equal arrays in the three observing modes: the DFT
\* buffers, left at intensity_sampling^2 samples by the last star, the OTF
\* and the AO transfer function of the first call do not reach the second,
\* every transform starting from a buffer of len^2 samples
C30_SecondCallEqualsFirst ==
    /\ (call.op = "intensity" /\ workers.of[1].pc = "done") =>
            workers.of[1].image = call.ret
    /\ (call.op = "intensity" /\ workers.of[1].pc = "stars") =>
            LET me == workers.of[1]
            IN  /\ ALen(me.dfts.fft.buf) \in
                        {me.dfts.fft.len * me.dfts.fft.len,
                         me.samp.intensity_sampling * me.samp.intensity_sampling}
                \* the next transform starts from len^2 samples, all zero
                /\ ALen(ZpReset(me.dfts.fft).buf) = me.dfts.fft.len * me.dfts.fft.len
                /\ \A c \in DOMAIN ZpReset(me.dfts.fft).buf :
                        ZpReset(me.dfts.fft).buf[c] = C0
\* the second call on an adaptive-optics field of two stars has returned an
\* array that is not all zero, its forward engine of length 4 left with the 4
\* samples of the last resize
C30_TwiceEvaluated ==
    /\ call.op = "intensity"
    /\ workers.of[1].pc = "done"
    /\ Len(workers.of[1].field.objects) = 2
    /\ workers.of[1].field.mode = "AdaptiveOptics"
    /\ workers.of[1].field.impl = "field"
    /\ ALen(workers.of[1].dfts.fft.buf) = 4 /\ workers.of[1].dfts.fft.len = 4
    /\ \E c \in DOMAIN call.ret : ~FIsZero(call.ret[c])

====
